---------------------------- MODULE Spec2Model ----------------------------
(***************************************************************************)
(* Neron: a modular Discord bot.  This module models the per-guild         *)
(* settings store and connection cache (common/dataio.py), bargraph and    *)
(* shorten_text (common/utils/pretty.py) and the Exit, Colors, Starboard,  *)
(* Polls, Quotes, Tools, Birthdays, XEmbed and Core cogs as state          *)
(* machines, one or more specifications per cog.                           *)
(*                                                                         *)
(* Python strings are modelled as sequences of one-character strings, so   *)
(* that str(), int(), upper() and truthiness are computed, not assumed.    *)
(***************************************************************************)
EXTENDS Integers, Sequences, FiniteSets, TLC

VARIABLES
    \* ---- Exit cog ----
    exit_db,          \* guild -> settings table of the Exit cog (NoTable before build_settings_table)
    webhook_sends,    \* guild -> number of webhook.send() calls made so far
    \* ---- Colors cog (one guild) ----
    colors_db,        \* settings table of the Colors cog for the guild
    roles,            \* the guild's roles on the platform: role id -> [name, color]
    member_roles,     \* member -> set of role ids the member holds
    autoswitch,       \* Users config table: user -> 0/1 (rows created lazily)
    colors_reply,     \* outcome of the last Colors command
    \* ---- Starboard cog (one guild) ----
    sb_db,            \* settings table of the Starboard cog for the guild
    messages,         \* messages table: message_id -> [starboard_message_id, created_at]
    votes,            \* votes table: message_id -> user_id -> number of rows
    handlers,         \* the event-handler tasks in flight, each at its await point
    now,              \* datetime.now().timestamp()
    sb_channel,       \* the mirror messages posted in the destination channel
    nudges,           \* message_id -> near-threshold replies sent
    send_refused,     \* message_id -> the last send to the destination channel was refused
    overlapped,       \* message_id -> an event for it arrived while another was in flight
    sb_raised,        \* a Starboard handler ended with an exception
    \* ---- Polls cog (one channel) ----
    sessions,         \* Polls.sessions: channel id -> poll session
    poll_tasks,       \* the create_fast_poll tasks in flight, each at its await point
    poll_reply,       \* the last ephemeral answer of the Polls cog
    poll_results,     \* the results table the last closed poll was edited to show
    \* ---- Quotes cog ----
    busy,             \* Quotes.__busy
    temp_files,       \* the files in the cog's temp folder
    quote_tasks,      \* the audio message_menu_quotify tasks in flight
    quote_reply,      \* the last answer of the Quotes cog
    \* ---- common/dataio.py: one CogData ----
    data_conns,       \* CogData.__connections: entity -> "open" / "closed" connection
    data_files,       \* the database files on disk: entity -> settings table in the file
    data_deleted,     \* the entities for which delete() has returned, no get() since
    \* ---- Tools cog ----
    translators,      \* Tools.__translators: key -> client [source, target]
    constructions,    \* <<source, target>> -> number of GoogleTranslator(...) calls
    tr_result,        \* outcome of the last translate_text call
    \* ---- Birthdays cog ----
    bd_db,            \* guild -> settings table of the Birthdays cog
    bd_bdays,         \* bdays table of the Users database: user -> stored 'date' text
    bd_holders,       \* guild -> the members holding the guild's birthday role
    bd_now,           \* datetime.now(): [year, month, day]
    bd_last_check,    \* Birthdays.last_check
    bd_loop,          \* the check_birthdays task: [state, idx] (idx = guild being processed)
    bd_processed,     \* the guilds the for loop of the sweep body that ran last has reached
    bd_posted,        \* guild -> what that body sent to the guild's channel ("none" or members)
    bd_runs_today,    \* how many times the guild-processing body started on the day bd_now
    bd_ticks_today,   \* how many ticks of the loop happened on the day bd_now
    bd_listing,       \* the last /bday next: its inputs and the entries listed
    bd_sign,          \* the last get_zodiac_sign call: [month, day, sign]
    \* ---- common/utils/pretty.py ----
    bar_call,         \* the last bargraph call: its arguments and the string returned
    \* ---- XEmbed cog (one guild, one message) ----
    xe_db,            \* settings table of the XEmbed cog for the guild
    xe_platform,      \* the member's message and the rendering as the platform shows them
    xe_view,          \* the CancelButtonView: [state, cancelled]
    xe_tasks,         \* on_message, cancel and on_timeout, each at its await point
    xe_reply,         \* the last ephemeral answer of the cancel control
    \* ---- Core cog: one help browser ----
    help_view,        \* the HelpMenuView: [state, pages, current_page, shown]
    help_trail,       \* the presses handled so far and the page index after each
    \* ---- common/utils/pretty.py: shorten_text ----
    short_call,       \* the last shorten_text call: its arguments and the string returned
    \* ---- Quotes cog: one quote selection view ----
    select_view       \* the QuotifyView, its select callback and what the reply shows

exit_vars == <<exit_db, webhook_sends>>
colors_vars == <<colors_db, roles, member_roles, autoswitch, colors_reply>>
sb_vars == <<sb_db, messages, votes, handlers, now, sb_channel, nudges, send_refused,
             overlapped, sb_raised>>
polls_vars == <<sessions, poll_tasks, poll_reply, poll_results>>
quotes_vars == <<busy, temp_files, quote_tasks, quote_reply>>
data_vars == <<data_conns, data_files, data_deleted>>
tools_vars == <<translators, constructions, tr_result>>
bd_vars == <<bd_db, bd_bdays, bd_holders, bd_now, bd_last_check, bd_loop, bd_processed,
             bd_posted, bd_runs_today, bd_ticks_today, bd_listing, bd_sign>>
first_vars == <<exit_vars, colors_vars, sb_vars, polls_vars, quotes_vars, data_vars, tools_vars>>
bar_vars == <<bar_call>>
xe_vars == <<xe_db, xe_platform, xe_view, xe_tasks, xe_reply>>
help_vars == <<help_view, help_trail>>
short_vars == <<short_call>>
select_vars == <<select_view>>
last_vars == <<help_vars, short_vars, select_vars>>
later_vars == <<bd_vars, bar_vars, xe_vars, last_vars>>
vars == <<exit_db, webhook_sends, colors_db, roles, member_roles, autoswitch, colors_reply,
          sb_db, messages, votes, handlers, now, sb_channel, nudges, send_refused,
          overlapped, sb_raised, polls_vars, quotes_vars, data_vars, tools_vars, later_vars>>

\* what the handlers of one cog leave alone: the state of the other cogs
exit_others == <<colors_vars, sb_vars, polls_vars, quotes_vars, data_vars, tools_vars, later_vars>>
colors_others == <<exit_vars, sb_vars, polls_vars, quotes_vars, data_vars, tools_vars, later_vars>>
sb_others == <<exit_vars, colors_vars, polls_vars, quotes_vars, data_vars, tools_vars, later_vars>>
polls_others == <<exit_vars, colors_vars, sb_vars, quotes_vars, data_vars, tools_vars, later_vars>>
quotes_others == <<exit_vars, colors_vars, sb_vars, polls_vars, data_vars, tools_vars, later_vars>>
data_others == <<exit_vars, colors_vars, sb_vars, polls_vars, quotes_vars, tools_vars, later_vars>>
tools_others == <<exit_vars, colors_vars, sb_vars, polls_vars, quotes_vars, data_vars, later_vars>>
bd_others == <<first_vars, bar_vars, xe_vars, last_vars>>
bar_others == <<first_vars, bd_vars, xe_vars, last_vars>>
xe_others == <<first_vars, bd_vars, bar_vars, last_vars>>
early_vars == <<first_vars, bd_vars, bar_vars, xe_vars>>
help_others == <<early_vars, short_vars, select_vars>>
short_others == <<early_vars, help_vars, select_vars>>
select_others == <<early_vars, help_vars, short_vars>>

----------------------------------------------------------------------------
(* Bounds of the model *)

MaxSends == 2

\* GoogleTranslator(...) calls counted per language pair
MaxConstructions == 2

Guilds == {"g1", "g2"}

----------------------------------------------------------------------------
(* Python values and conversions *)

Digits == <<"0", "1", "2", "3", "4", "5", "6", "7", "8", "9">>

DigitValue(ch) == (CHOOSE i \in 1..10 : Digits[i] = ch) - 1

IsDigit(ch) == \E i \in 1..10 : Digits[i] = ch

\* str(n) for an int n >= 0
RECURSIVE PyStrInt(_)
PyStrInt(n) ==
    IF n < 10 THEN <<Digits[n + 1]>>
    ELSE PyStrInt(n \div 10) \o <<Digits[(n % 10) + 1]>>

PyNone == [t |-> "none"]
PyInt(n) == [t |-> "int", v |-> n]
PyText(s) == [t |-> "str", v |-> s]

\* str(value) as written into the settings table
PyStr(x) ==
    CASE x.t = "int"  -> PyStrInt(x.v)
      [] x.t = "str"  -> x.v
      [] x.t = "none" -> <<"N", "o", "n", "e">>

\* int(s) on a stored string: the number, or ValueError for a non-numeric string
ValueError == [t |-> "ValueError"]

RECURSIVE DigitsToInt(_)
DigitsToInt(s) ==
    IF Len(s) = 0 THEN 0
    ELSE 10 * DigitsToInt(SubSeq(s, 1, Len(s) - 1)) + DigitValue(s[Len(s)])

PyIntOfStr(s) ==
    IF Len(s) > 0 /\ \A i \in 1..Len(s) : IsDigit(s[i])
    THEN PyInt(DigitsToInt(s))
    ELSE ValueError

\* bool(x) / truthiness of a value returned by get_setting
Truthy(x) ==
    CASE x.t = "none" -> FALSE
      [] x.t = "str"  -> Len(x.v) > 0
      [] x.t = "int"  -> x.v # 0
      [] OTHER        -> FALSE

\* int(enabled) for a bool
PyIntOfBool(b) == PyInt(IF b THEN 1 ELSE 0)

----------------------------------------------------------------------------
(* common/dataio.py: the key-value settings table of one object *)

\* the database of an object before CREATE TABLE settings has run
NoTable == [exists |-> FALSE, rows |-> <<>>]

\* build_settings_table with INSERT OR REPLACE for INSERT OR IGNORE: C17
\* depends on the conflict clause
build_settings_table_replacing(db, default_settings) ==
    [exists |-> TRUE,
     rows   |-> LET old == IF db.exists THEN db.rows ELSE <<>>
                IN  [k \in DOMAIN old \cup DOMAIN default_settings |->
                        IF k \in DOMAIN default_settings
                        THEN PyStr(default_settings[k])
                        ELSE old[k]]]

\* INSERT OR IGNORE of every default, stringified: present keys keep their value
build_settings_table(db, default_settings) ==
    LET old == IF db.exists THEN db.rows ELSE <<>>
    IN  [exists |-> TRUE,
         rows   |-> [k \in DOMAIN old \cup DOMAIN default_settings |->
                        IF k \in DOMAIN old THEN old[k]
                        ELSE PyStr(default_settings[k])]]

\* INSERT OR REPLACE of every given key, stringified.  Without the table the
\* statement raises and nothing is written.
update_settings(db, settings) ==
    IF ~db.exists THEN db
    ELSE [db EXCEPT !.rows =
            [k \in DOMAIN db.rows \cup DOMAIN settings |->
                IF k \in DOMAIN settings THEN PyStr(settings[k]) ELSE db.rows[k]]]

\* get_setting(obj, key) with the default cast_as=str
get_setting(db, key) ==
    IF db.exists /\ key \in DOMAIN db.rows THEN PyText(db.rows[key]) ELSE PyNone

\* get_setting(obj, key, cast_as=int)
get_setting_int(db, key) ==
    IF db.exists /\ key \in DOMAIN db.rows THEN PyIntOfStr(db.rows[key]) ELSE PyNone

----------------------------------------------------------------------------
(* cogs/exit/exit.py *)

WEBHOOK_DEFAULT == [name   |-> <<"S">>,
                    avatar |-> <<"i">>]

WebhookUrls == {<<>>, <<"h">>}
WebhookNames == {<<"S">>, <<"n">>}
WebhookAvatars == {<<"i">>, <<"a">>}

Exit_default_settings ==
    [Enabled       |-> PyInt(0),
     WebhookURL    |-> PyText(<<>>),
     WebhookName   |-> PyText(WEBHOOK_DEFAULT.name),
     WebhookAvatar |-> PyText(WEBHOOK_DEFAULT.avatar)]

Exit_initialize_guilds(db, guilds) ==
    [g \in Guilds |-> IF g \in guilds
                      THEN build_settings_table(db[g], Exit_default_settings)
                      ELSE db[g]]

Exit_on_ready ==
    /\ exit_db' = Exit_initialize_guilds(exit_db, Guilds)
    /\ UNCHANGED <<webhook_sends, exit_others>>

Exit_on_guild_join(g) ==
    /\ exit_db' = Exit_initialize_guilds(exit_db, {g})
    /\ UNCHANGED <<webhook_sends, exit_others>>

\* get_guild_webhook: a webhook object exactly when the stored URL is non-empty
get_guild_webhook(db) == Truthy(get_setting(db, "WebhookURL"))

\* send_webhook: number of webhook.send() calls it makes (0 or 1)
send_webhook(db) == IF get_guild_webhook(db) THEN 1 ELSE 0

\* on_member_remove: "if self.data.get_setting(guild, 'Enabled'):" tests the
\* stored string itself
Exit_enabled_test(db) == Truthy(get_setting(db, "Enabled"))

on_member_remove(g) ==
    /\ LET n == IF Exit_enabled_test(exit_db[g]) THEN send_webhook(exit_db[g]) ELSE 0
       IN  /\ webhook_sends[g] + n <= MaxSends
           /\ webhook_sends' = [webhook_sends EXCEPT ![g] = @ + n]
    /\ UNCHANGED <<exit_db, exit_others>>

Exit_enable(g, enabled) ==
    /\ exit_db' = [exit_db EXCEPT ![g] =
                     update_settings(@, [Enabled |-> PyIntOfBool(enabled)])]
    /\ UNCHANGED <<webhook_sends, exit_others>>

Exit_webhook(g, url) ==
    /\ exit_db' = [exit_db EXCEPT ![g] =
                     update_settings(@, [WebhookURL |-> PyText(url)])]
    /\ UNCHANGED <<webhook_sends, exit_others>>

Exit_webhook_name(g, name) ==
    /\ exit_db' = [exit_db EXCEPT ![g] =
                     update_settings(@, [WebhookName |-> PyText(name)])]
    /\ UNCHANGED <<webhook_sends, exit_others>>

Exit_webhook_avatar(g, avatar) ==
    /\ exit_db' = [exit_db EXCEPT ![g] =
                     update_settings(@, [WebhookAvatar |-> PyText(avatar)])]
    /\ UNCHANGED <<webhook_sends, exit_others>>

Exit_init ==
    /\ exit_db = [g \in Guilds |-> NoTable]
    /\ webhook_sends = [g \in Guilds |-> 0]

ExitNext ==
    \/ Exit_on_ready
    \/ \E g \in Guilds : Exit_on_guild_join(g)
    \/ \E g \in Guilds : on_member_remove(g)
    \/ \E g \in Guilds, enabled \in BOOLEAN : Exit_enable(g, enabled)
    \/ \E g \in Guilds, url \in WebhookUrls : Exit_webhook(g, url)
    \/ \E g \in Guilds, name \in WebhookNames : Exit_webhook_name(g, name)
    \/ \E g \in Guilds, avatar \in WebhookAvatars : Exit_webhook_avatar(g, avatar)


----------------------------------------------------------------------------
(* cogs/colors/colors.py (one guild; handlers run one at a time) *)

Members == {"m1", "m2"}

\* ids the platform gives to the roles the cog creates
MaxRoles == 2
RoleIds == 1..MaxRoles

\* a role of the guild that is no colour role, usable as the LimitToRole gate
VipRole == 9
VipName == <<"V", "I", "P">>

\* a cog that reserves white instead of black: C22 depends on the value
DISCORD_INVALID_COLOR_white == <<"f", "f", "f", "f", "f", "f">>

DISCORD_INVALID_COLOR == <<"0", "0", "0", "0", "0", "0">>

LowerHex == <<"0", "1", "2", "3", "4", "5", "6", "7", "8", "9",
              "a", "b", "c", "d", "e", "f">>
UpperHex == <<"0", "1", "2", "3", "4", "5", "6", "7", "8", "9",
              "A", "B", "C", "D", "E", "F">>

IsHexChar(ch) == \E i \in 1..16 : LowerHex[i] = ch \/ UpperHex[i] = ch

HexValue(ch) == (CHOOSE i \in 1..16 : LowerHex[i] = ch \/ UpperHex[i] = ch) - 1

\* str.upper() on the characters the model uses
UpperChar(ch) ==
    IF \E i \in 1..16 : LowerHex[i] = ch
    THEN UpperHex[CHOOSE i \in 1..16 : LowerHex[i] = ch]
    ELSE ch

PyUpper(s) == [i \in 1..Len(s) |-> UpperChar(s[i])]

\* int(hex_color, 16)
RECURSIVE HexToInt(_)
HexToInt(s) ==
    IF Len(s) = 0 THEN 0
    ELSE 16 * HexToInt(SubSeq(s, 1, Len(s) - 1)) + HexValue(s[Len(s)])

\* str.lstrip('#')
RECURSIVE LStripHash(_)
LStripHash(s) ==
    IF Len(s) > 0 /\ s[1] = "#" THEN LStripHash(Tail(s)) ELSE s

\* re.match(r'^#?[0-9A-F]{6}$', color, re.IGNORECASE)
MatchesHexColor(s) ==
    LET body == IF Len(s) > 0 /\ s[1] = "#" THEN Tail(s) ELSE s
    IN  Len(body) = 6 /\ \A i \in 1..6 : IsHexChar(body[i])

\* str.isalnum() on the characters the model uses: letters and digits only
IsAlnum(s) ==
    /\ Len(s) > 0
    /\ \A i \in 1..Len(s) : s[i] # "#"

\* "r.name.startswith('#') and r.name[1:].isalnum()"
IsColorRoleName(name) ==
    /\ Len(name) > 0
    /\ name[1] = "#"
    /\ IsAlnum(Tail(name))

\* f'#{hex_color.upper()}'
ColorRoleName(hex_color) == <<"#">> \o PyUpper(hex_color)

\* f'{c.rgb.r:02x}{c.rgb.g:02x}{c.rgb.b:02x}'
Hex02x(n) == <<LowerHex[(n \div 16) + 1], LowerHex[(n % 16) + 1]>>

FormatRGB(rgb) == Hex02x(rgb[1]) \o Hex02x(rgb[2]) \o Hex02x(rgb[3])

\* get_avatar_colors(member, count=1): the dominant colour of the avatar,
\* formatted, without the reserved value
get_avatar_colors(dominant) ==
    LET colors == [i \in 1..Len(dominant) |-> FormatRGB(dominant[i])]
    IN  SelectSeq(colors, LAMBDA c : c # DISCORD_INVALID_COLOR)

Colors_default_settings ==
    [Enabled      |-> PyInt(1),
     BoundaryRole |-> PyInt(0),
     LimitToRole  |-> PyInt(0)]

is_enabled(db) == Truthy(get_setting_int(db, "Enabled"))

\* get_limit_to_role: guild.get_role(id), None for 0 or an unknown id
get_limit_to_role(db, rs) ==
    LET v == get_setting_int(db, "LimitToRole")
    IN  IF Truthy(v) /\ v.v \in DOMAIN rs THEN v.v ELSE 0

is_role_limited(db, rs, mr, member) ==
    LET limit_to_role == get_limit_to_role(db, rs)
    IN  limit_to_role # 0 /\ limit_to_role \notin mr[member]

\* the smallest element of a non-empty set of role ids (the model takes the
\* order of guild.roles and member.roles to be the order of the ids)
FirstRole(S) == CHOOSE r \in S : \A q \in S : r <= q

get_color_roles(rs) == {r \in DOMAIN rs : IsColorRoleName(rs[r].name)}

\* discord.utils.get(get_color_roles(guild), name=f'#{hex_color}'): 0 for None
get_color_role(rs, hex_color) ==
    LET found == {r \in get_color_roles(rs) : rs[r].name = <<"#">> \o hex_color}
    IN  IF found = {} THEN 0 ELSE FirstRole(found)

\* get_user_color_role: 0 for None
get_user_color_role(rs, mr, member) ==
    LET mine == {r \in mr[member] : r \in DOMAIN rs /\ IsColorRoleName(rs[r].name)}
    IN  IF mine = {} THEN 0 ELSE FirstRole(mine)

role_members(mr, r) == {m \in Members : r \in mr[m]}

is_recyclable(mr, r, ignore_members) == role_members(mr, r) \subseteq ignore_members

\* role.edit(name=f'#{hex_color.upper()}', color=discord.Color(int(hex_color, 16)))
edit_role(rs, r, hex_color) ==
    [rs EXCEPT ![r] = [name |-> ColorRoleName(hex_color), color |-> HexToInt(hex_color)]]

\* guild.create_role(name=..., color=...) under a fresh id
create_role(rs, r, hex_color) ==
    [q \in DOMAIN rs \cup {r} |->
        IF q = r THEN [name |-> ColorRoleName(hex_color), color |-> HexToInt(hex_color)]
        ELSE rs[q]]

\* the roles after the "recyclable role of the requester" step of fetch_role
\* (lines 176-180): the edit is made and the function goes on
recycle_own_role(rs, mr, hex_color, requested_by) ==
    LET role == get_user_color_role(rs, mr, requested_by)
    IN  IF role # 0 /\ is_recyclable(mr, role, {requested_by})
        THEN edit_role(rs, role, hex_color)
        ELSE rs

\* fetch_role(guild, hex_color, requested_by=member): the set of outcomes
\* [roles, ret], the guild's roles afterwards and the role returned.  The loop
\* over get_color_roles returns the first recyclable role in the guild's
\* hierarchy order, which the model leaves open (one outcome per candidate).
\* No outcome when a role must be created and the model's ids are used up.
fetch_role(rs, mr, hex_color, requested_by) ==
    LET existing == get_color_role(rs, hex_color)
        rs1 == recycle_own_role(rs, mr, hex_color, requested_by)
        free == {r \in get_color_roles(rs1) : is_recyclable(mr, r, {})}
        unused == RoleIds \ DOMAIN rs1
    IN  IF existing # 0
        THEN {[roles |-> rs, ret |-> existing]}
        ELSE IF free # {}
        THEN {[roles |-> edit_role(rs1, r, hex_color), ret |-> r] : r \in free}
        ELSE IF unused # {}
        THEN {[roles |-> create_role(rs1, FirstRole(unused), hex_color),
               ret |-> FirstRole(unused)]}
        ELSE {}

\* clean_roles: every colour role without a member is deleted
clean_roles(rs, mr) ==
    LET dead == {r \in get_color_roles(rs) : is_recyclable(mr, r, {})}
    IN  [r \in DOMAIN rs \ dead |-> rs[r]]

Colors_on_ready ==
    /\ colors_db' = build_settings_table(colors_db, Colors_default_settings)
    /\ UNCHANGED <<roles, member_roles, autoswitch, colors_reply, colors_others>>

\* the inputs of /color get
ColorInputs ==
    { <<"f", "f", "0", "0", "0", "0">>,
      <<"F", "F", "0", "0", "0", "0">>,
      <<"#", "F", "F", "0", "0", "0", "0">>,
      <<"1", "1", "2", "2", "3", "3">>,
      <<"0", "0", "0", "0", "0", "0">>,
      <<"#", "0", "0", "0", "0", "0", "0">>,
      <<"r", "e", "d">> }

\* a handler that answers with an error message and changes nothing else
Colors_reject(reply) ==
    /\ colors_reply' = reply
    /\ UNCHANGED <<colors_db, roles, member_roles, autoswitch, colors_others>>

\* /color get <couleur>
Colors_get_color(member, color_in) ==
    IF ~is_enabled(colors_db) THEN Colors_reject("disabled")
    ELSE IF is_role_limited(colors_db, roles, member_roles, member)
    THEN Colors_reject("limited")
    ELSE IF ~MatchesHexColor(color_in) THEN Colors_reject("bad_format")
    ELSE IF LStripHash(color_in) = DISCORD_INVALID_COLOR
    THEN Colors_reject("invalid_color")
    ELSE
      LET color == LStripHash(color_in)
          role == get_user_color_role(roles, member_roles, member)
          mr1 == IF role # 0
                 THEN [member_roles EXCEPT ![member] = @ \ {role}]
                 ELSE member_roles
      IN  /\ \E res \in fetch_role(roles, mr1, color, member) :
                /\ roles' = res.roles
                /\ member_roles' = [mr1 EXCEPT ![member] = @ \cup {res.ret}]
          /\ colors_reply' = "granted"
          /\ UNCHANGED <<colors_db, autoswitch, colors_others>>

\* /color remove
Colors_remove_color(member) ==
    IF ~is_enabled(colors_db) THEN Colors_reject("disabled")
    ELSE
      LET mine == {r \in member_roles[member] :
                      r \in DOMAIN roles /\ IsColorRoleName(roles[r].name)}
          mr1 == [member_roles EXCEPT ![member] = @ \ mine]
      IN  IF mine = {} THEN Colors_reject("no_color_role")
          ELSE /\ member_roles' = mr1
               /\ roles' = clean_roles(roles, mr1)
               /\ colors_reply' = "removed"
               /\ UNCHANGED <<colors_db, autoswitch, colors_others>>

\* add_user_to_config: INSERT OR IGNORE INTO config (user_id)
add_user_to_config(cfg, user) ==
    IF user \in DOMAIN cfg THEN cfg
    ELSE [u \in DOMAIN cfg \cup {user} |-> IF u = user THEN 0 ELSE cfg[u]]

is_autoswitch_enabled(cfg, user) == add_user_to_config(cfg, user)[user] = 1

set_autoswitch(cfg, user, enabled) ==
    [add_user_to_config(cfg, user) EXCEPT ![user] = IF enabled THEN 1 ELSE 0]

\* /color switcher <activer>
Colors_auto_color_switcher(member, enabled) ==
    IF ~is_enabled(colors_db) THEN Colors_reject("disabled")
    ELSE IF is_role_limited(colors_db, roles, member_roles, member)
    THEN Colors_reject("limited")
    ELSE /\ autoswitch' = set_autoswitch(autoswitch, member, enabled)
         /\ colors_reply' = "switcher_set"
         /\ UNCHANGED <<colors_db, roles, member_roles, colors_others>>

\* the dominant colours colorgram can report for an avatar
AvatarDominants == { <<<<255, 0, 0>>>>, <<<<17, 34, 51>>>>, <<<<0, 0, 0>>>> }

\* the swap shared by /color auto and on_member_update: fetch_role first,
\* then the current colour role is taken away and the fetched one given
apply_avatar_color(member, color, reply) ==
    /\ \E res \in fetch_role(roles, member_roles, color, member) :
          LET current_role == get_user_color_role(res.roles, member_roles, member)
              mr1 == IF current_role # 0
                     THEN [member_roles EXCEPT ![member] = @ \ {current_role}]
                     ELSE member_roles
          IN  /\ roles' = res.roles
              /\ member_roles' = [mr1 EXCEPT ![member] = @ \cup {res.ret}]
    /\ colors_reply' = reply

\* /color auto
Colors_auto_avatar_color(member, dominant) ==
    IF ~is_enabled(colors_db) THEN Colors_reject("disabled")
    ELSE IF is_role_limited(colors_db, roles, member_roles, member)
    THEN Colors_reject("limited")
    ELSE
      LET colors == get_avatar_colors(dominant)
      IN  IF Len(colors) = 0 THEN Colors_reject("no_avatar_color")
          ELSE /\ apply_avatar_color(member, colors[1], "granted")
               /\ UNCHANGED <<colors_db, autoswitch, colors_others>>

\* on_member_update with before.display_avatar != after.display_avatar
Colors_on_member_update(member, dominant) ==
    /\ is_enabled(colors_db)
    /\ ~is_role_limited(colors_db, roles, member_roles, member)
    /\ IF is_autoswitch_enabled(autoswitch, member) /\ Len(get_avatar_colors(dominant)) > 0
       THEN /\ apply_avatar_color(member, get_avatar_colors(dominant)[1], "auto_switched")
            /\ autoswitch' = add_user_to_config(autoswitch, member)
            /\ UNCHANGED <<colors_db, colors_others>>
       ELSE /\ autoswitch' = add_user_to_config(autoswitch, member)
            /\ UNCHANGED <<colors_db, roles, member_roles, colors_reply, colors_others>>

\* /configcolors enable
Colors_enable_colors(enabled) ==
    /\ colors_db' = update_settings(colors_db, [Enabled |-> PyIntOfBool(enabled)])
    /\ UNCHANGED <<roles, member_roles, autoswitch, colors_reply, colors_others>>

\* /configcolors limit: a role of the guild, or None
Colors_set_limit_to_role(role) ==
    /\ colors_db' = update_settings(colors_db, [LimitToRole |-> PyInt(role)])
    /\ UNCHANGED <<roles, member_roles, autoswitch, colors_reply, colors_others>>

\* /configcolors clean
Colors_clean_colors ==
    /\ roles' = clean_roles(roles, member_roles)
    /\ UNCHANGED <<colors_db, member_roles, autoswitch, colors_reply, colors_others>>

Colors_init ==
    /\ colors_db = NoTable
    /\ roles = [r \in {VipRole} |-> [name |-> VipName, color |-> 0]]
    /\ member_roles = [m \in Members |-> IF m = "m1" THEN {VipRole} ELSE {}]
    /\ autoswitch = <<>>
    /\ colors_reply = "none"

ColorsNext ==
    \/ Colors_on_ready
    \/ \E m \in Members, c \in ColorInputs : Colors_get_color(m, c)
    \/ \E m \in Members : Colors_remove_color(m)
    \/ \E m \in Members, e \in BOOLEAN : Colors_auto_color_switcher(m, e)
    \/ \E m \in Members, d \in AvatarDominants : Colors_auto_avatar_color(m, d)
    \/ \E m \in Members, d \in AvatarDominants : Colors_on_member_update(m, d)
    \/ \E e \in BOOLEAN : Colors_enable_colors(e)
    \/ \E r \in {0, VipRole} : Colors_set_limit_to_role(r)
    \/ Colors_clean_colors

----------------------------------------------------------------------------
(* cogs/starboard/starboard.py (one guild) *)

MESSAGE_EXPIRATION_DELAY == 24 * 60 * 60

\* the period of task_message_expire, also the step by which the clock advances
ExpireTaskPeriod == 12 * 60 * 60

MaxTicks == 3
MaxMirrors == 2
MaxNudges == 2
MaxThreshold == 3

Users == {"u1", "u2"}
MsgIds == {1}
HandlerIds == {1, 2}

\* the messages users react to: message m was sent at MsgCreatedAt(m)
MsgCreatedAt(m) == (m - 1) * ExpireTaskPeriod

\* the text channel administrators pick as destination
SbChannelId == 7

StarEmote == <<"*">>
OtherEmote == <<"+">>

Starboard_default_settings ==
    [Enabled             |-> PyInt(0),
     Channel             |-> PyNone,
     Threshold           |-> PyInt(5),
     Emote               |-> PyText(StarEmote),
     NotifyNearThreshold |-> PyInt(0)]

IdleHandler == [pc |-> "idle", kind |-> "none", m |-> 0, u |-> "none", r |-> 0]

AllIdle == \A h \in HandlerIds : handlers[h].pc = "idle"

\* a new task takes the lowest free slot
FreeSlot(h) ==
    /\ handlers[h].pc = "idle"
    /\ \A k \in HandlerIds : k < h => handlers[k].pc # "idle"

\* get_message_data: is there a row for the message
get_message_data(msgs, message_id) == message_id \in DOMAIN msgs

\* set_message_data that drops the mirror id it is given: C4 depends on the
\* row keeping the id of the mirror
set_message_data_without_id(msgs, message_id, starboard_message_id, t) ==
    [k \in DOMAIN msgs \cup {message_id} |->
        IF k = message_id
        THEN [starboard_message_id |-> 0, created_at |-> t]
        ELSE msgs[k]]

\* set_message_data: INSERT OR REPLACE INTO messages VALUES (id, sb_id, now)
set_message_data(msgs, message_id, starboard_message_id, t) ==
    [k \in DOMAIN msgs \cup {message_id} |->
        IF k = message_id
        THEN [starboard_message_id |-> starboard_message_id, created_at |-> t]
        ELSE msgs[k]]

\* clean_expired_messages, first statement: DELETE FROM messages WHERE created_at < now - delay
clean_expired_messages_rows(msgs, t) ==
    [k \in {q \in DOMAIN msgs : ~(msgs[q].created_at < t - MESSAGE_EXPIRATION_DELAY)} |-> msgs[k]]

\* clean_expired_messages without its second DELETE: C7 depends on the cascade
clean_expired_messages_votes_kept(vs, msgs) == vs

\* clean_expired_messages, second statement: DELETE FROM votes WHERE message_id NOT IN messages
clean_expired_messages_votes(vs, msgs) ==
    [m \in MsgIds |-> IF m \in DOMAIN msgs THEN vs[m] ELSE [u \in Users |-> 0]]

RECURSIVE SumOver(_, _)
SumOver(f, S) ==
    IF S = {} THEN 0
    ELSE LET x == CHOOSE y \in S : TRUE IN f[x] + SumOver(f, S \ {x})

\* len(get_message_votes(guild, message_id)): the number of vote rows of the message
get_message_votes_len(vs, message_id) == SumOver(vs[message_id], Users)

\* "user_id in self.get_message_votes(guild, message_id)"
has_voted(vs, message_id, user_id) == vs[message_id][user_id] > 0

\* add_message_vote without the pre-insert existence check: C8 depends on it
add_message_vote_unchecked(msgs, vs, message_id, user_id, t) ==
    [messages |-> IF ~get_message_data(msgs, message_id)
                  THEN set_message_data(msgs, message_id, 0, t)
                  ELSE msgs,
     votes    |-> [vs EXCEPT ![message_id][user_id] = @ + 1],
     added    |-> TRUE]

\* add_message_vote that initialises the row on every call: C9 depends on the
\* row being initialised only when it is absent
add_message_vote_reinit(msgs, vs, message_id, user_id, t) ==
    LET msgs1 == set_message_data(msgs, message_id, 0, t)
    IN  IF has_voted(vs, message_id, user_id)
        THEN [messages |-> msgs1, votes |-> vs, added |-> FALSE]
        ELSE [messages |-> msgs1,
              votes    |-> [vs EXCEPT ![message_id][user_id] = @ + 1],
              added    |-> TRUE]

\* add_message_vote: the tables afterwards and the value returned
add_message_vote(msgs, vs, message_id, user_id, t) ==
    LET msgs1 == IF ~get_message_data(msgs, message_id)
                 THEN set_message_data(msgs, message_id, 0, t)
                 ELSE msgs
    IN  IF has_voted(vs, message_id, user_id)
        THEN [messages |-> msgs1, votes |-> vs, added |-> FALSE]
        ELSE [messages |-> msgs1,
              votes    |-> [vs EXCEPT ![message_id][user_id] = @ + 1],
              added    |-> TRUE]

\* remove_message_vote: DELETE FROM votes WHERE message_id = ? AND user_id = ?
remove_message_vote(msgs, vs, message_id, user_id) ==
    IF ~get_message_data(msgs, message_id) THEN vs
    ELSE [vs EXCEPT ![message_id][user_id] = 0]

\* get_starboard_channel: "none" for None, "raise" when int() fails on the stored
\* string or the settings table is missing, else the channel id
get_starboard_channel(db) ==
    IF ~db.exists THEN "raise"
    ELSE LET v == get_setting_int(db, "Channel")
         IN  IF v.t = "ValueError" THEN "raise"
             ELSE IF Truthy(v) /\ v.v = SbChannelId THEN "channel"
             ELSE "none"

\* the mirrors posted for a source message
MirrorsOf(m) == {x \in sb_channel : x.source = m}

MirrorIds == {x.id : x \in sb_channel}

\* the handler of slot h ends; raised says whether it ended with an exception
Finish(h, raised) ==
    /\ handlers' = [handlers EXCEPT ![h] = IdleHandler]
    /\ sb_raised' = (sb_raised \/ raised)

\* an event on message m while another task for m is still suspended
StartsOverlapping(m) == \E k \in HandlerIds : handlers[k].pc # "idle" /\ handlers[k].m = m

\* on_raw_reaction_add, lines 225-245: the filters up to "await channel.fetch_message"
SB_on_raw_reaction_add(h, m, u, emoji, can_read_history) ==
    /\ FreeSlot(h)
    /\ MsgCreatedAt(m) <= now
    /\ LET passes ==
             /\ can_read_history
             /\ sb_db.exists
             /\ Truthy(get_setting_int(sb_db, "Enabled"))
             /\ PyText(emoji) = get_setting(sb_db, "Emote")
             /\ get_starboard_channel(sb_db) = "channel"
           raises ==
             /\ can_read_history
             /\ \/ ~sb_db.exists
                \/ /\ Truthy(get_setting_int(sb_db, "Enabled"))
                   /\ PyText(emoji) = get_setting(sb_db, "Emote")
                   /\ get_starboard_channel(sb_db) = "raise"
       IN  IF passes
           THEN /\ handlers' = [handlers EXCEPT ![h] =
                       [pc |-> "fetch_message", kind |-> "reaction", m |-> m, u |-> u, r |-> 0]]
                /\ overlapped' = [overlapped EXCEPT ![m] = @ \/ StartsOverlapping(m)]
                /\ UNCHANGED sb_raised
           ELSE /\ sb_raised' = (sb_raised \/ raises)
                /\ UNCHANGED <<handlers, overlapped>>
    /\ UNCHANGED <<sb_db, messages, votes, now, sb_channel, nudges, send_refused, sb_others>>

\* /starboard manual, lines 276-278: up to "await interaction.channel.fetch_message"
SB_config_manual_add(h, m) ==
    /\ FreeSlot(h)
    /\ MsgCreatedAt(m) <= now
    /\ handlers' = [handlers EXCEPT ![h] =
            [pc |-> "fetch_message", kind |-> "manual", m |-> m, u |-> "none", r |-> 0]]
    /\ overlapped' = [overlapped EXCEPT ![m] = @ \/ StartsOverlapping(m)]
    /\ UNCHANGED <<sb_db, messages, votes, now, sb_channel, nudges, send_refused,
                   sb_raised, sb_others>>

\* handle_starboard_message, lines 187-196 with get_starboard_message lines 111-118:
\* up to "await starboard_channel.fetch_message(r)", on tables msgs
handle_starboard_message_begin(h, msgs) ==
    LET ch == get_starboard_channel(sb_db)
        m == handlers[h].m
    IN  IF ch = "raise" THEN Finish(h, TRUE)
        ELSE IF ch = "none" \/ ~get_message_data(msgs, m) THEN Finish(h, FALSE)
        ELSE /\ handlers' = [handlers EXCEPT ![h].pc = "sb_fetch",
                                             ![h].u = "none",
                                             ![h].r = msgs[m].starboard_message_id]
             /\ UNCHANGED sb_raised

\* on_raw_reaction_add, lines 246-256: the source message is fetched
\* on_raw_reaction_add without the test of line 247: C35 depends on it
message_expired_never(created_at, t) == FALSE

\* line 247: message.created_at.timestamp() < int(datetime.now().timestamp())
\* - MESSAGE_EXPIRATION_DELAY
message_expired(created_at, t) == created_at < t - MESSAGE_EXPIRATION_DELAY

SB_reaction_fetched(h) ==
    /\ handlers[h].pc = "fetch_message"
    /\ handlers[h].kind = "reaction"
    /\ LET m == handlers[h].m
           u == handlers[h].u
           res == add_message_vote(messages, votes, m, u, now)
       IN  IF message_expired(MsgCreatedAt(m), now)
           THEN Finish(h, FALSE) /\ UNCHANGED <<messages, votes>>
           ELSE /\ messages' = res.messages
                /\ votes' = res.votes
                /\ IF res.added
                   THEN handle_starboard_message_begin(h, res.messages)
                   ELSE Finish(h, FALSE)
    /\ UNCHANGED <<sb_db, now, sb_channel, nudges, send_refused, overlapped, sb_others>>

\* /starboard manual, lines 279-281: handle_starboard_message(message)
SB_manual_fetched(h) ==
    /\ handlers[h].pc = "fetch_message"
    /\ handlers[h].kind = "manual"
    /\ handle_starboard_message_begin(h, messages)
    /\ UNCHANGED <<sb_db, messages, votes, now, sb_channel, nudges, send_refused,
                   overlapped, sb_others>>

\* the threshold test with <= for <: C3 depends on promotion at exactly T votes
below_threshold_inclusive(n_votes, threshold) == n_votes <= threshold

\* "if len(votes) < threshold and not ignore_threshold" with the default
\* ignore_threshold=False, which every caller uses
below_threshold(n_votes, threshold) == n_votes < threshold

\* "notify and len(votes) == threshold // 2 + 1 and threshold > 1"
near_threshold(notify, n_votes, threshold) ==
    notify /\ n_votes = (threshold \div 2) + 1 /\ threshold > 1

\* handle_starboard_message, lines 197-213: the answer of fetch_message(r) arrives
SB_mirror_fetched(h) ==
    /\ handlers[h].pc = "sb_fetch"
    /\ LET m == handlers[h].m
           found == handlers[h].r \in MirrorIds
           threshold == get_setting_int(sb_db, "Threshold").v
           n_votes == get_message_votes_len(votes, m)
           notify == Truthy(get_setting_int(sb_db, "NotifyNearThreshold"))
       IN  IF found
           THEN \* starboard_embed(message, starboard_message=...) then edit
                IF ~get_message_data(messages, m)
                THEN Finish(h, TRUE) /\ UNCHANGED <<sb_channel, nudges>>
                ELSE Finish(h, FALSE) /\ UNCHANGED <<sb_channel, nudges>>
           ELSE IF below_threshold(n_votes, threshold)
           THEN IF near_threshold(notify, n_votes, threshold)
                THEN /\ nudges[m] < MaxNudges
                     /\ nudges' = [nudges EXCEPT ![m] = @ + 1]
                     /\ Finish(h, FALSE)
                     /\ UNCHANGED sb_channel
                ELSE Finish(h, FALSE) /\ UNCHANGED <<sb_channel, nudges>>
           ELSE \* starboard_embed(message) raises when the row is gone
                IF ~get_message_data(messages, m)
                THEN Finish(h, TRUE) /\ UNCHANGED <<sb_channel, nudges>>
                ELSE /\ handlers' = [handlers EXCEPT ![h].pc = "send"]
                     /\ UNCHANGED <<sb_channel, nudges, sb_raised>>
    /\ UNCHANGED <<sb_db, messages, votes, now, send_refused, overlapped, sb_others>>

\* handle_starboard_message, lines 214-219: the answer of starboard_channel.send arrives
SB_mirror_sent(h, ok) ==
    /\ handlers[h].pc = "send"
    /\ LET m == handlers[h].m
           new_id == Cardinality(sb_channel) + 1
       IN  IF ok
           THEN /\ new_id <= MaxMirrors
                /\ sb_channel' = sb_channel \cup
                      {[id |-> new_id, source |-> m]}
                /\ messages' = set_message_data(messages, m, new_id, now)
                /\ send_refused' = [send_refused EXCEPT ![m] = FALSE]
           ELSE /\ send_refused' = [send_refused EXCEPT ![m] = TRUE]
                /\ UNCHANGED <<sb_channel, messages>>
    /\ Finish(h, FALSE)
    /\ UNCHANGED <<sb_db, votes, now, nudges, overlapped, sb_others>>

\* task_message_expire: clean_expired_messages for the guild
SB_task_message_expire ==
    /\ sb_db.exists
    /\ messages' = clean_expired_messages_rows(messages, now)
    /\ votes' = clean_expired_messages_votes(votes, messages')
    /\ UNCHANGED <<sb_db, handlers, now, sb_channel, nudges, send_refused,
                   overlapped, sb_raised, sb_others>>

\* the wall clock advances
SB_Tick ==
    /\ now < MaxTicks * ExpireTaskPeriod
    /\ now' = now + ExpireTaskPeriod
    /\ UNCHANGED <<sb_db, messages, votes, handlers, sb_channel, nudges, send_refused,
                   overlapped, sb_raised, sb_others>>

\* remove_message_vote(guild, message_id, user_id)
SB_remove_message_vote(m, u) ==
    /\ sb_db.exists
    /\ votes' = remove_message_vote(messages, votes, m, u)
    /\ UNCHANGED <<sb_db, messages, handlers, now, sb_channel, nudges, send_refused,
                   overlapped, sb_raised, sb_others>>

SB_on_ready ==
    /\ sb_db' = build_settings_table(sb_db, Starboard_default_settings)
    /\ UNCHANGED <<messages, votes, handlers, now, sb_channel, nudges, send_refused,
                   overlapped, sb_raised, sb_others>>

SB_update(settings) ==
    /\ sb_db' = update_settings(sb_db, settings)
    /\ UNCHANGED <<messages, votes, handlers, now, sb_channel, nudges, send_refused,
                   overlapped, sb_raised, sb_others>>

\* /starboard enable
SB_config_sb_enable(enabled) == SB_update([Enabled |-> PyIntOfBool(enabled)])

\* /starboard channel: refused only when the bot has neither permission
config_sb_channel_refused(can_send, can_read_history) == ~can_send /\ ~can_read_history

SB_config_sb_channel(can_send, can_read_history) ==
    IF config_sb_channel_refused(can_send, can_read_history)
    THEN UNCHANGED vars
    ELSE SB_update([Channel |-> PyInt(SbChannelId)])

\* /starboard threshold (app_commands.Range[int, 0])
SB_config_sb_threshold(threshold) == SB_update([Threshold |-> PyInt(threshold)])

\* /starboard emote: refused when longer than one character
SB_config_sb_emote(emote) ==
    IF Len(emote) > 1 THEN UNCHANGED vars
    ELSE SB_update([Emote |-> PyText(emote)])

\* /starboard notify
SB_config_sb_notify(notify) == SB_update([NotifyNearThreshold |-> PyIntOfBool(notify)])

\* the tables, tasks and platform state right after construction
SB_init_state ==
    /\ messages = <<>>
    /\ votes = [m \in MsgIds |-> [u \in Users |-> 0]]
    /\ handlers = [h \in HandlerIds |-> IdleHandler]
    /\ now = 0
    /\ sb_channel = {}
    /\ nudges = [m \in MsgIds |-> 0]
    /\ send_refused = [m \in MsgIds |-> FALSE]
    /\ overlapped = [m \in MsgIds |-> FALSE]
    /\ sb_raised = FALSE

SB_init == sb_db = NoTable /\ SB_init_state

\* the steps by which a suspended handler goes on
SB_resume ==
    \/ \E h \in HandlerIds : SB_reaction_fetched(h)
    \/ \E h \in HandlerIds : SB_manual_fetched(h)
    \/ \E h \in HandlerIds : SB_mirror_fetched(h)
    \/ \E h \in HandlerIds, ok \in BOOLEAN : SB_mirror_sent(h, ok)

\* A guild configured by the commands: enabled, destination channel set
SB_configured(threshold, notify) ==
    update_settings(build_settings_table(NoTable, Starboard_default_settings),
                    [Enabled |-> PyInt(1), Channel |-> PyInt(SbChannelId),
                     Threshold |-> PyInt(threshold),
                     NotifyNearThreshold |-> PyIntOfBool(notify)])

\* a threshold of 1..MaxThreshold, the nudge on or off
SB_init_configured ==
    /\ \E t \in 1..MaxThreshold, n \in BOOLEAN : sb_db = SB_configured(t, n)
    /\ SB_init_state

\* a threshold of 1..MaxThreshold, the nudge off
SB_init_configured_quiet ==
    /\ \E t \in 1..MaxThreshold : sb_db = SB_configured(t, FALSE)
    /\ SB_init_state

\* Every event is handled to its end before the next one starts, and the
\* settings stay as configured.
StarboardSeqNext ==
    \/ \E h \in HandlerIds, m \in MsgIds, u \in Users, e \in {StarEmote, OtherEmote},
          p \in BOOLEAN : AllIdle /\ SB_on_raw_reaction_add(h, m, u, e, p)
    \/ \E h \in HandlerIds, m \in MsgIds : AllIdle /\ SB_config_manual_add(h, m)
    \/ SB_resume
    \/ AllIdle /\ SB_task_message_expire
    \/ AllIdle /\ SB_Tick

\* The handler tasks interleave at their await points with each other, with
\* the expiry task and with the threshold command.  The near-threshold nudge,
\* which writes nothing but the reply it sends, is off.
StarboardConcNext ==
    \/ \E h \in HandlerIds, m \in MsgIds, u \in Users, e \in {StarEmote, OtherEmote},
          p \in BOOLEAN : SB_on_raw_reaction_add(h, m, u, e, p)
    \/ \E h \in HandlerIds, m \in MsgIds : SB_config_manual_add(h, m)
    \/ SB_resume
    \/ SB_task_message_expire
    \/ SB_Tick
    \/ \E m \in MsgIds, u \in Users : SB_remove_message_vote(m, u)
    \/ \E t \in 0..MaxThreshold : SB_config_sb_threshold(t)

\* Every command of the cog, from the state after construction, one event at
\* a time.
StarboardAdminNext ==
    \/ AllIdle /\ SB_on_ready
    \/ \E h \in HandlerIds, m \in MsgIds, u \in Users, e \in {StarEmote, OtherEmote},
          p \in BOOLEAN : AllIdle /\ SB_on_raw_reaction_add(h, m, u, e, p)
    \/ \E h \in HandlerIds, m \in MsgIds : AllIdle /\ SB_config_manual_add(h, m)
    \/ SB_resume
    \/ AllIdle /\ SB_task_message_expire
    \/ AllIdle /\ SB_Tick
    \/ \E e \in BOOLEAN : AllIdle /\ SB_config_sb_enable(e)
    \/ \E s \in BOOLEAN, r \in BOOLEAN : AllIdle /\ SB_config_sb_channel(s, r)
    \/ \E t \in 0..MaxThreshold : AllIdle /\ SB_config_sb_threshold(t)
    \/ \E e \in {StarEmote, OtherEmote, OtherEmote \o OtherEmote} :
          AllIdle /\ SB_config_sb_emote(e)
    \/ \E n \in BOOLEAN : AllIdle /\ SB_config_sb_notify(n)

----------------------------------------------------------------------------
(* cogs/polls/polls.py (one text channel) *)

PollChannels == {"c1"}
PollTaskIds == {1, 2}
PollTitles == {<<"P">>, <<"Q">>}

\* the "choices" argument of /poll as typed
PollChoiceInputs ==
    {<<"a", ",", "b">>, <<"b", ";", " ", "a", ";", "b">>, <<"a", ",", " ">>}

\* lines 96-97: re.split(r'[,;]', choices), then the options that are neither
\* empty nor blank, each stripped
parse_choices(choices) ==
    LET seps   == {i \in 1..Len(choices) : choices[i] \in {",", ";"}}
        cuts   == {0} \cup seps \cup {Len(choices) + 1}
        cut(k) == CHOOSE b \in cuts : Cardinality({x \in cuts : x < b}) = k
        pieces == [k \in 1..(Cardinality(seps) + 1) |->
                      SubSeq(choices, cut(k - 1) + 1, cut(k) - 1)]
        isspace(o) == o # <<>> /\ \A i \in 1..Len(o) : o[i] = " "
        strip(o)   == LET ink == {i \in 1..Len(o) : o[i] # " "}
                      IN  SubSeq(o, CHOOSE i \in ink : \A j \in ink : i <= j,
                                    CHOOSE i \in ink : \A j \in ink : i >= j)
        kept   == SelectSeq(pieces, LAMBDA o : ~isspace(o) /\ o # <<>>)
    IN  [k \in 1..Len(kept) |-> strip(kept[k])]

\* create_fast_poll without the test of line 93: C12 depends on it
session_open_never(ss, ch) == FALSE

\* line 93: channel.id in self.sessions
session_open(ss, ch) == ch \in DOMAIN ss

IdlePollTask == [pc |-> "idle", ch |-> "none", pin |-> FALSE]

\* line 105: the keys of {option: [] for option in options}, in the order a
\* Python dict keeps them: each option at its first occurrence
dict_keys(options) ==
    LET first == {i \in 1..Len(options) : \A j \in 1..(i - 1) : options[j] # options[i]}
        nth(k) == CHOOSE i \in first : Cardinality({j \in first : j < i}) = k - 1
    IN  [k \in 1..Cardinality(first) |-> options[nth(k)]]

\* max() keeping the last of the keys with the greatest count: C32 depends on
\* the order in which max() visits the keys
fastpoll_winner_last(keys, vs) ==
    LET i == CHOOSE x \in 1..Len(keys) :
                 /\ \A j \in 1..Len(keys) : Len(vs[keys[j]]) <= Len(vs[keys[x]])
                 /\ \A j \in (x + 1)..Len(keys) : Len(vs[keys[j]]) < Len(vs[keys[x]])
    IN  keys[i]

\* line 61: max(data['votes'], key=lambda x: len(data['votes'][x])) returns the
\* first of the keys with the greatest count
fastpoll_winner(keys, vs) ==
    LET i == CHOOSE x \in 1..Len(keys) :
                 /\ \A j \in 1..Len(keys) : Len(vs[keys[j]]) <= Len(vs[keys[x]])
                 /\ \A j \in 1..(x - 1) : Len(vs[keys[j]]) < Len(vs[keys[x]])
    IN  keys[i]

\* get_fastpoll_embed, lines 57-70: the rows of the table, one per key of
\* data['votes']; with results the winner's row is marked "+", the others "-"
get_fastpoll_embed(data, results) ==
    LET keys   == dict_keys(data.choices)
        winner == IF results THEN fastpoll_winner(keys, data.votes) ELSE "None"
    IN  [choices |-> data.choices,
         rows    |-> [k \in 1..Len(keys) |->
                         [choice |-> keys[k],
                          mark   |-> IF ~results THEN ""
                                     ELSE IF keys[k] = winner THEN "+" ELSE "-",
                          count  |-> Len(data.votes[keys[k]])]]]

\* create_fast_poll, lines 90-113: up to "await channel.send"
Polls_create_fast_poll(t, ch, title, choices, pin_message) ==
    /\ poll_tasks[t].pc = "idle"
    /\ \A k \in PollTaskIds : k < t => poll_tasks[k].pc # "idle"
    /\ IF session_open(sessions, ch)
       THEN /\ poll_reply' = "already_running"
            /\ UNCHANGED <<sessions, poll_tasks>>
       ELSE LET options == parse_choices(choices)
            IN  IF Len(options) < 2
                THEN /\ poll_reply' = "invalid"
                     /\ UNCHANGED <<sessions, poll_tasks>>
                ELSE /\ sessions' =
                          [c \in DOMAIN sessions \cup {ch} |->
                              IF c = ch
                              THEN [title   |-> title,
                                    choices |-> options,
                                    votes   |-> [o \in {options[i] : i \in DOMAIN options}
                                                    |-> <<>>],
                                    embed_message |-> "None",
                                    view    |-> "none"]
                              ELSE sessions[c]]
                     /\ poll_tasks' = [poll_tasks EXCEPT
                                          ![t] = [pc |-> "send", ch |-> ch, pin |-> pin_message]]
                     /\ UNCHANGED poll_reply
    /\ UNCHANGED <<poll_results, polls_others>>

\* create_fast_poll, lines 113-128: the task goes on after an await; ok says
\* whether the awaited platform call succeeded.  Only a failed pin or unpin is
\* caught (lines 115-118, 124-127); any other failure ends the task.
Polls_resume(t, ok) ==
    LET task == poll_tasks[t]
        ch   == task.ch
        goto(pc) == poll_tasks' = [poll_tasks EXCEPT ![t].pc = pc]
        ends == poll_tasks' = [poll_tasks EXCEPT ![t] = IdlePollTask]
    IN  /\ task.pc # "idle"
        /\ CASE task.pc = "send" ->
                  IF ok
                  THEN /\ sessions' = [sessions EXCEPT
                                          ![ch].view = "active",
                                          ![ch].embed_message =
                                              IF task.pin THEN "None" ELSE "msg"]
                       /\ goto(IF task.pin THEN "pin" ELSE "respond")
                       /\ UNCHANGED <<poll_reply, poll_results>>
                  ELSE ends /\ UNCHANGED <<sessions, poll_reply, poll_results>>
             [] task.pc = "pin" ->
                  /\ sessions' = [sessions EXCEPT ![ch].embed_message = "msg"]
                  /\ goto("respond")
                  /\ UNCHANGED <<poll_reply, poll_results>>
             [] task.pc = "respond" ->
                  /\ UNCHANGED <<sessions, poll_results>>
                  /\ IF ok THEN goto("wait") /\ poll_reply' = "created"
                           ELSE ends /\ UNCHANGED poll_reply
             [] task.pc = "wait" ->
                  /\ sessions[ch].view = "expired"
                  /\ goto("edit")
                  /\ UNCHANGED <<sessions, poll_reply, poll_results>>
             [] task.pc = "edit" ->
                  \* line 122: the message is edited to the results table
                  IF ~ok THEN ends /\ UNCHANGED <<sessions, poll_reply, poll_results>>
                  ELSE /\ poll_results' = get_fastpoll_embed(sessions[ch], TRUE)
                       /\ UNCHANGED poll_reply
                       /\ IF task.pin THEN goto("unpin") /\ UNCHANGED sessions
                          ELSE /\ sessions' = [c \in DOMAIN sessions \ {ch} |-> sessions[c]]
                               /\ ends
             [] task.pc = "unpin" ->
                  /\ sessions' = [c \in DOMAIN sessions \ {ch} |-> sessions[c]]
                  /\ ends
                  /\ UNCHANGED <<poll_reply, poll_results>>
        /\ UNCHANGED polls_others

\* the voting control of the poll in channel ch reaches its timeout
Polls_view_timeout(ch) ==
    /\ ch \in DOMAIN sessions
    /\ sessions[ch].view = "active"
    /\ sessions' = [sessions EXCEPT ![ch].view = "expired"]
    /\ UNCHANGED <<poll_tasks, poll_reply, poll_results, polls_others>>

\* FastPollSelect.callback without its first loop: C13 depends on the removal
remove_voter_skipped(vs, user) == vs

\* FastPollSelect.callback, lines 35-38: list.remove drops the first occurrence
remove_voter(vs, user) ==
    [o \in DOMAIN vs |->
        LET at == {i \in 1..Len(vs[o]) : vs[o][i] = user}
        IN  IF at = {} THEN vs[o]
            ELSE LET i == CHOOSE x \in at : \A y \in at : x <= y
                 IN  SubSeq(vs[o], 1, i - 1) \o SubSeq(vs[o], i + 1, Len(vs[o]))]

\* FastPollSelect.callback: user selects value in the control of channel ch
FastPollSelect_callback(ch, user, value) ==
    /\ ch \in DOMAIN sessions
    /\ sessions[ch].view = "active"
    /\ value \in DOMAIN sessions[ch].votes
    /\ LET vs     == sessions[ch].votes
           edited == \E o \in DOMAIN vs : \E i \in 1..Len(vs[o]) : vs[o][i] = user
           vs1    == remove_voter(vs, user)
           vs2    == IF \E i \in 1..Len(vs1[value]) : vs1[value][i] = user
                     THEN vs1
                     ELSE [vs1 EXCEPT ![value] = Append(@, user)]
       IN  /\ sessions' = [sessions EXCEPT ![ch].votes = vs2]
           \* line 44: embed_message is None until line 119 has run
           /\ poll_reply' = IF sessions[ch].embed_message = "None" THEN "raised"
                            ELSE IF edited THEN "vote_edited" ELSE "vote_counted"
    /\ UNCHANGED <<poll_tasks, poll_results, polls_others>>

Polls_init ==
    /\ sessions = <<>>
    /\ poll_tasks = [t \in PollTaskIds |-> IdlePollTask]
    /\ poll_reply = "none"
    /\ poll_results = [choices |-> <<>>, rows |-> <<>>]

PollsNext ==
    \/ \E t \in PollTaskIds, ch \in PollChannels, title \in PollTitles,
          choices \in PollChoiceInputs, pin \in BOOLEAN :
          Polls_create_fast_poll(t, ch, title, choices, pin)
    \/ \E t \in PollTaskIds, ok \in BOOLEAN : Polls_resume(t, ok)
    \/ \E ch \in PollChannels : Polls_view_timeout(ch)
    \/ \E ch \in PollChannels, u \in Users, v \in {<<"a">>, <<"b">>} :
          FastPollSelect_callback(ch, u, v)

----------------------------------------------------------------------------
(* cogs/quotes/quotes.py: quotify on a message with an audio attachment *)

AudioMsgs == {"m1", "m2"}
QuoteTaskIds == {1, 2}

IdleQuoteTask == [pc |-> "idle", m |-> "none", too_big |-> FALSE]

\* message_menu_quotify without the test of line 181: C15 depends on it
is_busy_never(b) == FALSE

\* line 181: if self.__busy
is_busy(b) == b

\* message_menu_quotify, lines 176-184: up to "await interaction.response.defer()";
\* too_big says whether the attachment is larger than 8 MB
Quotes_message_menu_quotify(t, m, too_big) ==
    /\ quote_tasks[t].pc = "idle"
    /\ \A k \in QuoteTaskIds : k < t => quote_tasks[k].pc # "idle"
    /\ IF is_busy(busy)
       THEN /\ quote_reply' = "busy"
            /\ UNCHANGED <<busy, temp_files, quote_tasks>>
       ELSE /\ busy' = TRUE
            /\ quote_tasks' = [quote_tasks EXCEPT
                                  ![t] = [pc |-> "defer", m |-> m, too_big |-> too_big]]
            /\ UNCHANGED <<temp_files, quote_reply>>
    /\ UNCHANGED quotes_others

\* message_menu_quotify (lines 184-203) and audio_quote_msg_attachment (lines
\* 388-409): the task goes on after an await; ok says whether the awaited call
\* succeeded, rendered whether create_video_quote wrote the video
Quotes_resume(t, ok, rendered) ==
    LET task == quote_tasks[t]
        goto(pc) == quote_tasks' = [quote_tasks EXCEPT ![t].pc = pc]
        ends == quote_tasks' = [quote_tasks EXCEPT ![t] = IdleQuoteTask]
    IN  /\ task.pc # "idle"
        /\ CASE task.pc = "defer" ->
                  \* defer() is outside the try: its failure ends the task
                  /\ IF ~ok THEN ends
                     ELSE IF task.too_big THEN goto("error_send")
                     ELSE goto("save")
                  /\ UNCHANGED <<busy, temp_files, quote_reply>>
             [] task.pc = "save" ->
                  /\ IF ok THEN /\ temp_files' = temp_files \cup {<<"audio", task.m>>}
                                /\ goto("avatar")
                           ELSE goto("error_send") /\ UNCHANGED temp_files
                  /\ UNCHANGED <<busy, quote_reply>>
             [] task.pc = "avatar" ->
                  /\ IF ok /\ rendered
                     THEN /\ temp_files' = temp_files \cup {<<"video", task.m>>}
                          /\ goto("send")
                     ELSE goto("error_send") /\ UNCHANGED temp_files
                  /\ UNCHANGED <<busy, quote_reply>>
             [] task.pc = "send" ->
                  IF ok
                  THEN /\ temp_files' = temp_files \ {<<"audio", task.m>>, <<"video", task.m>>}
                       /\ busy' = FALSE
                       /\ quote_reply' = "video"
                       /\ ends
                  ELSE goto("error_send") /\ UNCHANGED <<busy, temp_files, quote_reply>>
             [] task.pc = "error_send" ->
                  \* a failure of followup.send inside the except block ends the task
                  /\ IF ok THEN busy' = FALSE /\ quote_reply' = "error"
                           ELSE UNCHANGED <<busy, quote_reply>>
                  /\ ends
                  /\ UNCHANGED temp_files
        /\ UNCHANGED quotes_others

Quotes_init ==
    /\ busy = FALSE
    /\ temp_files = {}
    /\ quote_tasks = [t \in QuoteTaskIds |-> IdleQuoteTask]
    /\ quote_reply = "none"

QuotesNext ==
    \/ \E t \in QuoteTaskIds, m \in AudioMsgs, too_big \in BOOLEAN :
          Quotes_message_menu_quotify(t, m, too_big)
    \/ \E t \in QuoteTaskIds, ok \in BOOLEAN, rendered \in BOOLEAN :
          Quotes_resume(t, ok, rendered)

----------------------------------------------------------------------------
(* common/dataio.py: the connection cache and the files of one CogData;     *)
(* the entities are the guilds                                             *)

SettingKeys == {"k1", "k2"}
SettingValues == {PyInt(0), PyInt(5), PyNone}

\* the dicts passed as default_settings or settings
SettingDicts ==
    UNION {[K -> SettingValues] : K \in SUBSET SettingKeys}

\* CogData.get: the cached handle, or a new connection, which creates the file
Data_get_result(conns, files, obj) ==
    IF obj \in DOMAIN conns THEN [conns |-> conns, files |-> files]
    ELSE [conns |-> [e \in DOMAIN conns \cup {obj} |->
                        IF e = obj THEN "open" ELSE conns[e]],
          files |-> [e \in DOMAIN files \cup {obj} |->
                        IF e \in DOMAIN files THEN files[e] ELSE NoTable]]

Data_get(obj) ==
    /\ data_conns' = Data_get_result(data_conns, data_files, obj).conns
    /\ data_files' = Data_get_result(data_conns, data_files, obj).files
    /\ data_deleted' = data_deleted \ {obj}
    /\ UNCHANGED data_others

\* CogData.close
Data_close(obj) ==
    /\ data_conns' = [e \in DOMAIN data_conns \ {obj} |-> data_conns[e]]
    /\ UNCHANGED <<data_files, data_deleted, data_others>>

\* CogData.close_all: every connection is closed, the cache keeps its entries
Data_close_all ==
    /\ data_conns' = [e \in DOMAIN data_conns |-> "closed"]
    /\ UNCHANGED <<data_files, data_deleted, data_others>>

\* CogData.delete: everything happens under "if obj in self.__connections"
Data_delete(obj) ==
    /\ IF obj \in DOMAIN data_conns
       THEN /\ data_conns' = [e \in DOMAIN data_conns \ {obj} |-> data_conns[e]]
            /\ data_files' = [e \in DOMAIN data_files \ {obj} |-> data_files[e]]
       ELSE UNCHANGED <<data_conns, data_files>>
    /\ data_deleted' = data_deleted \cup {obj}
    /\ UNCHANGED data_others

\* CogData.delete_all: the files of the cached entities, then the cache
Data_delete_all ==
    /\ data_files' = [e \in DOMAIN data_files \ DOMAIN data_conns |-> data_files[e]]
    /\ data_conns' = <<>>
    /\ UNCHANGED <<data_deleted, data_others>>

\* the table in the file of obj once get(obj) has run
Data_table(obj) == Data_get_result(data_conns, data_files, obj).files[obj]

\* statements on the handle get(obj) returns, which leave written in the
\* file; on a closed connection they raise and write nothing
Data_execute(obj, written) ==
    LET got == Data_get_result(data_conns, data_files, obj)
    IN  /\ data_conns' = got.conns
        /\ data_files' = IF got.conns[obj] = "closed" THEN got.files
                         ELSE [got.files EXCEPT ![obj] = written]
        /\ data_deleted' = data_deleted \ {obj}
        /\ UNCHANGED data_others

\* CogData.build_settings_table([obj], default_settings)
Data_build_settings_table(obj, default_settings) ==
    Data_execute(obj, build_settings_table(Data_table(obj), default_settings))

\* CogData.update_settings(obj, settings)
Data_update_settings(obj, settings) ==
    Data_execute(obj, update_settings(Data_table(obj), settings))

Data_init ==
    /\ data_conns = <<>>
    /\ data_files = <<>>
    /\ data_deleted = {}

DataNext ==
    \/ \E obj \in Guilds : Data_get(obj)
    \/ \E obj \in Guilds : Data_close(obj)
    \/ Data_close_all
    \/ \E obj \in Guilds : Data_delete(obj)
    \/ Data_delete_all
    \/ \E obj \in Guilds, d \in SettingDicts : Data_build_settings_table(obj, d)
    \/ \E obj \in Guilds, d \in SettingDicts : Data_update_settings(obj, d)

----------------------------------------------------------------------------
(* cogs/tools/tools.py: translate_text *)

\* GoogleTranslator().get_supported_languages(), cut down to three languages
SupportedLangs == {<<"e", "n">>, <<"e", "s">>, <<"f", "r">>}
AutoLang == <<"a", "u", "t", "o">>

\* the language arguments callers pass, one of them unsupported
LangInputs == SupportedLangs \cup {AutoLang, <<"x", "x">>}

\* f'{source}:{target}'
translator_key(source, target) == source \o <<":">> \o target

\* translate_text without the test of line 70: C20 depends on it
is_cached_never(key, cache) == FALSE

\* line 70: f'{source}:{target}' in self.__translators
is_cached(key, cache) == key \in DOMAIN cache

\* Tools.translate_text(text, target, source=source)
Tools_translate_text(source, target) ==
    /\ IF source = target
       THEN tr_result' = "text" /\ UNCHANGED <<translators, constructions>>
       ELSE IF target \notin SupportedLangs
       THEN tr_result' = "ValueError_target" /\ UNCHANGED <<translators, constructions>>
       ELSE IF source \notin SupportedLangs \cup {AutoLang}
       THEN tr_result' = "ValueError_source" /\ UNCHANGED <<translators, constructions>>
       ELSE LET key == translator_key(source, target)
            IN  IF is_cached(key, translators)
                THEN tr_result' = "reused" /\ UNCHANGED <<translators, constructions>>
                ELSE /\ constructions[<<source, target>>] < MaxConstructions
                     /\ translators' =
                           [k \in DOMAIN translators \cup {key} |->
                               IF k = key THEN [source |-> source, target |-> target]
                               ELSE translators[k]]
                     /\ constructions' =
                           [constructions EXCEPT ![<<source, target>>] = @ + 1]
                     /\ tr_result' = "constructed"
    /\ UNCHANGED tools_others

Tools_init ==
    /\ translators = <<>>
    /\ constructions = [p \in LangInputs \X LangInputs |-> 0]
    /\ tr_result = "none"

ToolsNext == \E source \in LangInputs, target \in LangInputs : Tools_translate_text(source, target)

----------------------------------------------------------------------------
(* cogs/birthdays/birthdays.py *)

\* bound on the midnights that pass and on the ticks of the loop within a day
MaxDays == 2
MaxBdTicks == 2

\* the rows of bdays in rowid order, bot.guilds, and guild.members
BdUsers == <<"m1", "m2", "m3">>
bot_guilds == <<"g1", "g2">>
guild_members == [g1 |-> {"m1", "m2", "m3"}, g2 |-> {"m2"}]

\* the day the process was started
StartDate == [year |-> 2023, month |-> 12, day |-> 31]

\* days of a month of the proleptic Gregorian calendar
DaysInMonth(year, month) ==
    IF month = 2
    THEN IF year % 4 = 0 /\ (year % 100 # 0 \/ year % 400 = 0) THEN 29 ELSE 28
    ELSE IF month \in {4, 6, 9, 11} THEN 30 ELSE 31

\* datetime.now() one day later
Tomorrow(date) ==
    IF date.day < DaysInMonth(date.year, date.month)
    THEN [date EXCEPT !.day = @ + 1]
    ELSE IF date.month < 12
    THEN [date EXCEPT !.month = @ + 1, !.day = 1]
    ELSE [year |-> date.year + 1, month |-> 1, day |-> 1]

RECURSIVE DaysBetween(_, _)
DaysBetween(from, to) == IF from = to THEN 0 ELSE 1 + DaysBetween(Tomorrow(from), to)

\* '%02d' % n
Pad2(n) == IF n < 10 THEN <<"0">> \o PyStrInt(n) ELSE PyStrInt(n)

\* date.strftime('%d/%m')
strftime_dm(date) == Pad2(date.day) \o <<"/">> \o Pad2(date.month)

\* datetime.strptime(s, '%d/%m'): [month, day] of a date of the year 1900, or
\* ValueError.  Each field is one or two digits and the day exists in 1900.
strptime_dm(s) ==
    LET cuts == {i \in 1..Len(s) : s[i] = "/"}
        cut == CHOOSE i \in cuts : TRUE
        d == PyIntOfStr(SubSeq(s, 1, cut - 1))
        m == PyIntOfStr(SubSeq(s, cut + 1, Len(s)))
    IN  IF Cardinality(cuts) # 1 THEN ValueError
        ELSE IF cut - 1 > 2 \/ Len(s) - cut > 2 THEN ValueError
        ELSE IF d = ValueError \/ m = ValueError THEN ValueError
        ELSE IF m.v \notin 1..12 THEN ValueError
        ELSE IF d.v \notin 1..DaysInMonth(1900, m.v) THEN ValueError
        ELSE [month |-> m.v, day |-> d.v]

Birthdays_default_settings ==
    [NotificationChannel |-> PyInt(0),
     RoleID              |-> PyInt(0),
     SilentMentions      |-> PyInt(1)]

\* get_birthdays_from(guild): the members of the guild with a stored date, in
\* row order, each with the parsed date
get_birthdays_from(bdays, guild) ==
    LET rows == SelectSeq(BdUsers, LAMBDA u : u \in DOMAIN bdays /\ u \in guild_members[guild])
    IN  [i \in 1..Len(rows) |-> [member |-> rows[i], date |-> strptime_dm(bdays[rows[i]])]]

\* get_birthdays_today(guild): list of members
get_birthdays_today(bdays, guild, today) ==
    LET hits == SelectSeq(get_birthdays_from(bdays, guild),
                          LAMBDA b : b.date.month = today.month /\ b.date.day = today.day)
    IN  [i \in 1..Len(hits) |-> hits[i].member]

\* check_birthdays with the test of line 55 always false: C24 depends on it
checked_today_never(last_check, today) == FALSE

\* line 55: self.last_check == datetime.now().strftime('%d/%m')
checked_today(last_check, today) == last_check = strftime_dm(today)

\* the body of the for loop of check_birthdays for one guild (lines 60-101):
\* the members holding the role afterwards, what was sent, and the exception
\* raised, if any.  `fail` names the platform call that is refused.
process_guild(db, bdays, holders, today, guild, fail) ==
    LET channel_id == get_setting_int(db[guild], "NotificationChannel")
        role_id == get_setting_int(db[guild], "RoleID")
        birthdays == get_birthdays_today(bdays, guild, today)
        celebrated == {birthdays[i] : i \in 1..Len(birthdays)}
        to_remove == holders[guild] \ celebrated
        to_add == celebrated \ holders[guild]
        after_remove == [holders EXCEPT ![guild] = @ \ to_remove]
        after_add == [after_remove EXCEPT ![guild] = @ \cup to_add]
        announce(hs) ==
            IF ~Truthy(channel_id) THEN [holders |-> hs, posted |-> "none", raised |-> "none"]
            ELSE IF Len(birthdays) = 0
            THEN [holders |-> hs, posted |-> "none", raised |-> "IndexError"]
            ELSE IF fail = "send"
            THEN [holders |-> hs, posted |-> "none", raised |-> "send"]
            ELSE [holders |-> hs, posted |-> birthdays, raised |-> "none"]
    IN  IF ~Truthy(role_id) THEN announce(holders)
        ELSE IF to_remove # {} /\ fail = "remove_roles"
        THEN [holders |-> holders, posted |-> "none", raised |-> "remove_roles"]
        ELSE IF Len(birthdays) = 0
        THEN [holders |-> after_remove, posted |-> "none", raised |-> "none"]
        ELSE IF to_add # {} /\ fail = "add_roles"
        THEN [holders |-> after_remove, posted |-> "none", raised |-> "add_roles"]
        ELSE announce(after_add)

\* on_ready: the settings tables are built and check_birthdays.start() is
\* called, which raises RuntimeError while the task is running
Birthdays_on_ready ==
    /\ bd_db' = [g \in Guilds |-> build_settings_table(bd_db[g], Birthdays_default_settings)]
    /\ bd_loop' = IF bd_loop.state \in {"stopped", "failed"}
                  THEN [state |-> "waiting", idx |-> 0] ELSE bd_loop
    /\ UNCHANGED <<bd_bdays, bd_holders, bd_now, bd_last_check, bd_processed, bd_posted,
                   bd_runs_today, bd_ticks_today, bd_listing, bd_sign, bd_others>>

\* one iteration of the tasks.loop(seconds=30): check_birthdays up to the for loop
Birthdays_check_birthdays ==
    /\ bd_loop.state = "waiting"
    /\ bd_ticks_today < MaxBdTicks
    /\ bd_ticks_today' = bd_ticks_today + 1
    /\ IF checked_today(bd_last_check, bd_now)
       THEN UNCHANGED <<bd_last_check, bd_loop, bd_processed, bd_posted, bd_runs_today>>
       ELSE /\ bd_last_check' = strftime_dm(bd_now)
            /\ bd_loop' = [state |-> "running", idx |-> 1]
            /\ bd_processed' = {}
            /\ bd_posted' = [g \in Guilds |-> "none"]
            /\ bd_runs_today' = bd_runs_today + 1
    /\ UNCHANGED <<bd_db, bd_bdays, bd_holders, bd_now, bd_listing, bd_sign, bd_others>>

\* the next guild of the for loop.  An exception leaves check_birthdays; the
\* loop of discord.ext.tasks retries after a connection error (exc is
\* "ClientError") and ends on any other exception.
Birthdays_process_guild(fail, exc) ==
    /\ bd_loop.state = "running"
    /\ LET guild == bot_guilds[bd_loop.idx]
           res == process_guild(bd_db, bd_bdays, bd_holders, bd_now, guild, fail)
       IN  /\ bd_holders' = res.holders
           /\ bd_posted' = [bd_posted EXCEPT ![guild] = res.posted]
           /\ bd_processed' = bd_processed \cup {guild}
           /\ IF res.raised = "none"
              THEN /\ bd_loop' = IF bd_loop.idx < Len(bot_guilds)
                                 THEN [bd_loop EXCEPT !.idx = @ + 1]
                                 ELSE [state |-> "waiting", idx |-> 0]
              ELSE /\ bd_loop' = IF res.raised # "IndexError" /\ exc = "ClientError"
                                 THEN [state |-> "waiting", idx |-> 0]
                                 ELSE [state |-> "failed", idx |-> 0]
    /\ UNCHANGED <<bd_db, bd_bdays, bd_now, bd_last_check, bd_runs_today, bd_ticks_today,
                   bd_listing, bd_sign, bd_others>>

\* the calendar day changes
Birthdays_midnight ==
    /\ DaysBetween(StartDate, bd_now) < MaxDays
    /\ bd_now' = Tomorrow(bd_now)
    /\ bd_runs_today' = 0
    /\ bd_ticks_today' = 0
    /\ UNCHANGED <<bd_db, bd_bdays, bd_holders, bd_last_check, bd_loop, bd_processed,
                   bd_posted, bd_listing, bd_sign, bd_others>>

\* /bday set <date>: check_date_format, then INSERT OR REPLACE
Birthdays_set_birthday(user, date) ==
    /\ bd_bdays' = IF strptime_dm(date) = ValueError THEN bd_bdays
                   ELSE [u \in DOMAIN bd_bdays \cup {user} |->
                            IF u = user THEN date ELSE bd_bdays[u]]
    /\ UNCHANGED <<bd_db, bd_holders, bd_now, bd_last_check, bd_loop, bd_processed,
                   bd_posted, bd_runs_today, bd_ticks_today, bd_listing, bd_sign, bd_others>>

\* /bday remove
Birthdays_remove_birthday(user) ==
    /\ bd_bdays' = [u \in DOMAIN bd_bdays \ {user} |-> bd_bdays[u]]
    /\ UNCHANGED <<bd_db, bd_holders, bd_now, bd_last_check, bd_loop, bd_processed,
                   bd_posted, bd_runs_today, bd_ticks_today, bd_listing, bd_sign, bd_others>>

\* /configbdays notify and /configbdays role: the id of the object, 0 for none
Birthdays_config(guild, key, id) ==
    /\ bd_db' = [bd_db EXCEPT ![guild] = update_settings(@, [k \in {key} |-> PyInt(id)])]
    /\ UNCHANGED <<bd_bdays, bd_holders, bd_now, bd_last_check, bd_loop, bd_processed,
                   bd_posted, bd_runs_today, bd_ticks_today, bd_listing, bd_sign, bd_others>>

\* /bday next with the carry to next year never taken: C26 depends on it
has_passed_never(date, today, late) == FALSE

\* lines 221-222: d.replace(year=today.year) < today.  The stored date is a
\* midnight; `late` says that today's time of day is after midnight.
has_passed(date, today, late) ==
    \/ date.month < today.month
    \/ date.month = today.month /\ date.day < today.day
    \/ date.month = today.month /\ date.day = today.day /\ late

\* x[1].timestamp() of a midnight, counted in days of a calendar of twelve
\* 31-day months rather than in seconds: the order of the dates is kept
timestamp(date) == (12 * date.year + date.month) * 31 + date.day

\* sorted(items, key=lambda x: x[1].timestamp()): stable insertion in order
RECURSIVE sorted_by_timestamp(_)
sorted_by_timestamp(items) ==
    IF Len(items) = 0 THEN <<>>
    ELSE LET last == items[Len(items)]
             head == sorted_by_timestamp(SubSeq(items, 1, Len(items) - 1))
             keep == SelectSeq(head, LAMBDA x : timestamp(x.date) <= timestamp(last.date))
             rest == SelectSeq(head, LAMBDA x : timestamp(x.date) > timestamp(last.date))
         IN  keep \o <<last>> \o rest

\* the entries of the embed of /bday next (lines 215-234)
next_birthdays(bdays, guild, today, late, limit) ==
    LET birthdays == get_birthdays_from(bdays, guild)
        resolved == [i \in 1..Len(birthdays) |->
            [member |-> birthdays[i].member,
             date |-> [year  |-> IF has_passed(birthdays[i].date, today, late)
                                 THEN today.year + 1 ELSE today.year,
                       month |-> birthdays[i].date.month,
                       day   |-> birthdays[i].date.day]]]
        listebday == sorted_by_timestamp(resolved)
    IN  SubSeq(listebday, 1, IF limit < Len(listebday) THEN limit ELSE Len(listebday))

\* /bday next <limite>
Birthdays_next_birthdays(guild, late, limit) ==
    /\ bd_listing' = [late |-> late, limit |-> limit, today |-> bd_now, bdays |-> bd_bdays,
                      entries |-> next_birthdays(bd_bdays, guild, bd_now, late, limit)]
    /\ UNCHANGED <<bd_db, bd_bdays, bd_holders, bd_now, bd_last_check, bd_loop, bd_processed,
                   bd_posted, bd_runs_today, bd_ticks_today, bd_sign, bd_others>>

\* the table of get_zodiac_sign (line 141), without the symbols
zodiacs ==
    << <<120, "Capricorne">>, <<218, "Verseau">>, <<320, "Poisson">>, <<420, "Belier">>,
       <<521, "Taureau">>, <<621, "Gemeaux">>, <<722, "Cancer">>, <<823, "Lion">>,
       <<923, "Vierge">>, <<1023, "Balance">>, <<1122, "Scorpion">>,
       <<1222, "Sagittaire">>, <<1231, "Capricorne">> >>

\* get_zodiac_sign with a strict comparison: C27 depends on the test of line 146
zodiac_reached_strict(date_number, cutoff) == date_number < cutoff

\* line 146: date_number <= z[0]
zodiac_reached(date_number, cutoff) == date_number <= cutoff

\* get_zodiac_sign(date): the name of the sign, "None" when no entry matches
get_zodiac_sign(date) ==
    LET date_number == DigitsToInt(PyStrInt(date.month) \o Pad2(date.day))
        hits == {i \in 1..Len(zodiacs) : zodiac_reached(date_number, zodiacs[i][1])}
    IN  IF hits = {} THEN "None"
        ELSE zodiacs[CHOOSE i \in hits : \A j \in hits : i <= j][2]

\* a call of get_zodiac_sign (by get_user_embed or the sweep)
Birthdays_get_zodiac_sign(month, day) ==
    /\ bd_sign' = [month |-> month, day |-> day,
                   sign |-> get_zodiac_sign([month |-> month, day |-> day])]
    /\ UNCHANGED <<bd_db, bd_bdays, bd_holders, bd_now, bd_last_check, bd_loop, bd_processed,
                   bd_posted, bd_runs_today, bd_ticks_today, bd_listing, bd_others>>

\* the state after Birthdays(bot), the clock apart
Birthdays_init_state ==
    /\ bd_db = [g \in Guilds |-> NoTable]
    /\ bd_bdays = <<>>
    /\ bd_holders = [g \in Guilds |-> {}]
    /\ bd_last_check = <<>>
    /\ bd_loop = [state |-> "stopped", idx |-> 0]
    /\ bd_processed = {}
    /\ bd_posted = [g \in Guilds |-> "none"]
    /\ bd_runs_today = 0
    /\ bd_ticks_today = 0
    /\ bd_listing = [late |-> FALSE, limit |-> 0, today |-> StartDate, bdays |-> <<>>,
                     entries |-> <<>>]
    /\ bd_sign = [month |-> 0, day |-> 0, sign |-> "none"]

Birthdays_init == Birthdays_init_state /\ bd_now = StartDate

\* the dates members give to /bday set during the sweeps, one of them refused
SweepDateInputs == { <<"3", "1", "/", "1", "2">>, <<"2", "9", "/", "0", "2">> }

BirthdaysSweepNext ==
    \/ Birthdays_on_ready
    \/ Birthdays_check_birthdays
    \/ \E fail \in {"none", "remove_roles", "add_roles", "send"},
          exc \in {"HTTPException", "ClientError"} : Birthdays_process_guild(fail, exc)
    \/ Birthdays_midnight
    \/ \E user \in {"m1", "m2"}, date \in SweepDateInputs : Birthdays_set_birthday(user, date)
    \/ \E user \in {"m1", "m2"} : Birthdays_remove_birthday(user)
    \/ \E guild \in Guilds, id \in {0, 5} : Birthdays_config(guild, "NotificationChannel", id)
    \/ \E guild \in Guilds, id \in {0, 7} : Birthdays_config(guild, "RoleID", id)

\* the dates and the days on which /bday next is used
UpcomingDateInputs ==
    { <<"1", "0", "/", "0", "1">>, <<"1", "5", "/", "6">>, <<"2", "5", "/", "1", "2">> }

ReferenceDates ==
    { [year |-> 2023, month |-> 12, day |-> 1], [year |-> 2024, month |-> 6, day |-> 15] }

BirthdaysUpcomingNext ==
    \/ \E user \in {"m1", "m2", "m3"}, date \in UpcomingDateInputs :
          Birthdays_set_birthday(user, date)
    \/ \E user \in {"m1", "m2", "m3"} : Birthdays_remove_birthday(user)
    \/ \E late \in BOOLEAN, limit \in {2, 10} : Birthdays_next_birthdays("g1", late, limit)

ZodiacNext ==
    \E month \in 1..12 : \E day \in 1..DaysInMonth(2024, month) :
        Birthdays_get_zodiac_sign(month, day)

----------------------------------------------------------------------------
(* common/utils/pretty.py: bargraph *)

\* the values and totals bargraph is called with
MaxBar == 10

\* the characters of the result: the full block and the half block
FULL == "full-block"
HALF == "half-block"

\* bargraph with the half block given from a third of a bar on: C28 depends
\* on the threshold of line 18
half_bar_due_third(n, d) == 3 * (n % d) >= d

\* line 18: (nb_bars % 1) >= 0.5 for nb_bars = n / d
half_bar_due(n, d) == 2 * (n % d) >= d

\* round(n / d) of Python 3: to the nearest integer, a tie to the even one
PyRound(n, d) ==
    LET low == n \div d
    IN  IF 2 * (n % d) > d THEN low + 1
        ELSE IF 2 * (n % d) < d THEN low
        ELSE IF low % 2 = 0 THEN low ELSE low + 1

\* bargraph(value, total, lenght=..., use_half_bar=..., display_percent=...).
\* The floats are computed as exact fractions: percent = pn / pd and
\* nb_bars = percent / (100 / lenght) = bn / bd.
bargraph(value, total, lenght, use_half_bar, display_percent) ==
    IF total = 0 THEN <<" ">>
    ELSE LET pn == value * 100
             pd == total
             bn == pn * lenght
             bd == pd * 100
             bars == [i \in 1..(bn \div bd) |-> FULL]
             halved == IF half_bar_due(bn, bd) /\ use_half_bar
                       THEN bars \o <<HALF>> ELSE bars
         IN  IF display_percent
             THEN halved \o <<" ">> \o PyStrInt(PyRound(pn, pd)) \o <<"%">>
             ELSE halved

\* a call of bargraph (by get_fastpoll_embed)
Pretty_bargraph(value, total, lenght, use_half_bar, display_percent) ==
    /\ bar_call' = [value |-> value, total |-> total, lenght |-> lenght,
                    use_half_bar |-> use_half_bar, display_percent |-> display_percent,
                    result |-> bargraph(value, total, lenght, use_half_bar, display_percent)]
    /\ UNCHANGED bar_others

Pretty_init ==
    bar_call = [value |-> 0, total |-> 0, lenght |-> 0, use_half_bar |-> FALSE,
                display_percent |-> FALSE, result |-> <<>>]

PrettyNext ==
    \E value \in 0..MaxBar, total \in 0..MaxBar, lenght \in {8, 10},
       use_half_bar \in BOOLEAN, display_percent \in BOOLEAN :
        Pretty_bargraph(value, total, lenght, use_half_bar, display_percent)

----------------------------------------------------------------------------
(* common/utils/pretty.py: shorten_text *)

MaxText == 5

\* text[:stop] of Python: a negative stop counts from the end of the text
PySliceTo(text, stop) ==
    LET n == Len(text)
        k == IF stop < 0 THEN (IF n + stop < 0 THEN 0 ELSE n + stop)
             ELSE IF stop > n THEN n ELSE stop
    IN  SubSeq(text, 1, k)

\* shorten_text, lines 33-43
shorten_text(text, max_length, end) ==
    IF Len(text) <= max_length THEN text
    ELSE PySliceTo(text, max_length - Len(end)) \o end

\* a call of shorten_text
Pretty_shorten_text(text, max_length, end) ==
    /\ short_call' = [text |-> text, max_length |-> max_length, end |-> end,
                      result |-> shorten_text(text, max_length, end)]
    /\ UNCHANGED short_others

Shorten_init ==
    short_call = [text |-> <<>>, max_length |-> 0, end |-> <<>>, result |-> <<>>]

\* the texts are the prefixes of "abcd...", the end markers "...", "~" and ""
ShortenNext ==
    \E n \in 0..MaxText, max_length \in 0..MaxText,
       end \in {<<".", ".", ".">>, <<"~">>, <<>>} :
        Pretty_shorten_text([i \in 1..n |-> <<"a", "b", "c", "d", "e", "f">>[((i - 1) % 6) + 1]],
                            max_length, end)

----------------------------------------------------------------------------
(* cogs/xembed/xembed.py (one guild, one message with a link; the platform *)
(* calls succeed and take effect when the awaiting task resumes)           *)

XEmbed_default_settings ==
    [Enabled     |-> PyInt(0),
     DeleteDelay |-> PyInt(10),
     Mode        |-> PyText(<<"f", "u", "l", "l">>)]

\* the two modes of /xembed mode
XEmbedModes == {<<"f", "u", "l", "l">>, <<"e", "m", "b", "e", "d">>}

\* on_ready: __initialize_guilds
XEmbed_on_ready ==
    /\ xe_db' = build_settings_table(xe_db, XEmbed_default_settings)
    /\ UNCHANGED <<xe_platform, xe_view, xe_tasks, xe_reply, xe_others>>

\* /xembed enable and /xembed mode
XEmbed_config(settings) ==
    /\ xe_db' = update_settings(xe_db, settings)
    /\ UNCHANGED <<xe_platform, xe_view, xe_tasks, xe_reply, xe_others>>

\* on_message for the message of a member.  `xeet` says whether extract_xeet
\* finds a post id, `links` whether sub_xeet_link finds a link to rewrite.
XEmbed_on_message(xeet, links) ==
    /\ xe_tasks.on_message = "idle"
    /\ xe_db.exists
    /\ LET mode == get_setting(xe_db, "Mode").v
       IN  xe_tasks' = [xe_tasks EXCEPT
              !.mode = mode,
              !.on_message =
                 IF ~Truthy(get_setting_int(xe_db, "Enabled")) \/ ~xeet THEN "done"
                 ELSE IF mode = <<"f", "u", "l", "l">> THEN "get_xeet_data"
                 ELSE IF mode = <<"e", "m", "b", "e", "d">> /\ links THEN "reply"
                 ELSE "done"]
    /\ UNCHANGED <<xe_db, xe_platform, xe_view, xe_reply, xe_others>>

\* on_message and embed_xeet resume from the await they are suspended at.
\* `data` says whether the mirror API returned the post.
XEmbed_resume(data) ==
    LET full == xe_tasks.mode = <<"f", "u", "l", "l">>
    IN  CASE xe_tasks.on_message = "get_xeet_data" ->
               \* lines 91-93, then line 231 when embed_xeet returns early
               /\ xe_tasks' = [xe_tasks EXCEPT !.on_message =
                                  IF data THEN "reply" ELSE "suppress"]
               /\ UNCHANGED <<xe_db, xe_platform, xe_view, xe_reply, xe_others>>
          [] xe_tasks.on_message = "reply" ->
               \* lines 191 and 236: message.reply(...); the view is built
               /\ xe_platform' = [xe_platform EXCEPT !.rendering = "posted",
                                                     !.rendering_suppressed = full]
               /\ xe_tasks' = [xe_tasks EXCEPT !.on_message = "attach"]
               /\ UNCHANGED <<xe_db, xe_view, xe_reply, xe_others>>
          [] xe_tasks.on_message = "attach" ->
               \* lines 194 and 238: view_message.edit(view=view, ...)
               /\ xe_platform' = [xe_platform EXCEPT !.control = TRUE,
                                                     !.rendering_suppressed = full]
               /\ xe_view' = [state |-> "listening", cancelled |-> FALSE]
               /\ xe_tasks' = [xe_tasks EXCEPT !.on_message =
                                  IF full THEN "suppress" ELSE "done"]
               /\ UNCHANGED <<xe_db, xe_reply, xe_others>>
          [] xe_tasks.on_message = "suppress" ->
               \* line 231: message.edit(suppress=True)
               /\ xe_platform' = [xe_platform EXCEPT !.message_suppressed = TRUE]
               /\ xe_tasks' = [xe_tasks EXCEPT !.on_message = "done"]
               /\ UNCHANGED <<xe_db, xe_view, xe_reply, xe_others>>
          [] OTHER -> FALSE

\* a press of the button: interaction_check, then the start of cancel
CancelButtonView_press(user) ==
    /\ xe_view.state = "listening"
    /\ xe_platform.rendering = "posted" /\ xe_platform.control
    /\ IF user # "author"
       THEN /\ xe_reply' = "only_author"
            /\ UNCHANGED <<xe_view, xe_tasks>>
       ELSE /\ xe_tasks.cancel = "idle"
            /\ xe_view' = [xe_view EXCEPT !.cancelled = TRUE]
            /\ xe_tasks' = [xe_tasks EXCEPT !.cancel = "delete"]
            /\ xe_reply' = "cancelling"
    /\ UNCHANGED <<xe_db, xe_platform, xe_others>>

\* cancel resumes: view_message.delete(), then xeel_message.edit(suppress=False)
CancelButtonView_cancel_resume ==
    /\ CASE xe_tasks.cancel = "delete" ->
              /\ xe_platform' = [xe_platform EXCEPT !.rendering = "deleted", !.control = FALSE]
              /\ xe_tasks' = [xe_tasks EXCEPT !.cancel = "restore"]
         [] xe_tasks.cancel = "restore" ->
              /\ xe_platform' = [xe_platform EXCEPT !.message_suppressed = FALSE]
              /\ xe_tasks' = [xe_tasks EXCEPT !.cancel = "done"]
         [] OTHER -> FALSE
    /\ UNCHANGED <<xe_db, xe_view, xe_reply, xe_others>>

\* on_timeout with the test of line 40 left out: C30 depends on it
on_timeout_edits_always(cancelled) == TRUE

\* line 40: if not self.cancelled
on_timeout_edits(cancelled) == ~cancelled

\* the delay of the view elapses: the view stops listening and on_timeout runs
CancelButtonView_on_timeout ==
    /\ xe_view.state = "listening"
    /\ xe_view' = [xe_view EXCEPT !.state = "finished"]
    /\ xe_tasks' = [xe_tasks EXCEPT !.on_timeout =
                       IF on_timeout_edits(xe_view.cancelled) THEN "edit" ELSE "done"]
    /\ UNCHANGED <<xe_db, xe_platform, xe_reply, xe_others>>

\* on_timeout resumes: view_message.edit(view=None, suppress=True)
CancelButtonView_on_timeout_resume ==
    /\ xe_tasks.on_timeout = "edit"
    /\ xe_platform' = [xe_platform EXCEPT !.control = FALSE, !.rendering_suppressed = TRUE,
                                          !.edits_after_delete =
                                              @ \/ xe_platform.rendering = "deleted"]
    /\ xe_tasks' = [xe_tasks EXCEPT !.on_timeout = "done"]
    /\ UNCHANGED <<xe_db, xe_view, xe_reply, xe_others>>

XEmbed_init ==
    /\ xe_db = NoTable
    /\ xe_platform = [message_suppressed |-> FALSE, rendering |-> "none", control |-> FALSE,
                      rendering_suppressed |-> FALSE, edits_after_delete |-> FALSE]
    /\ xe_view = [state |-> "none", cancelled |-> FALSE]
    /\ xe_tasks = [mode |-> <<>>, on_message |-> "idle", cancel |-> "idle",
                   on_timeout |-> "idle"]
    /\ xe_reply = "none"

XEmbedNext ==
    \/ XEmbed_on_ready
    \/ \E enabled \in BOOLEAN : XEmbed_config([Enabled |-> PyIntOfBool(enabled)])
    \/ \E mode \in XEmbedModes : XEmbed_config([Mode |-> PyText(mode)])
    \/ \E xeet \in BOOLEAN, links \in BOOLEAN : XEmbed_on_message(xeet, links)
    \/ \E data \in BOOLEAN : XEmbed_resume(data)
    \/ \E user \in {"author", "other"} : CancelButtonView_press(user)
    \/ CancelButtonView_cancel_resume
    \/ CancelButtonView_on_timeout
    \/ CancelButtonView_on_timeout_resume

----------------------------------------------------------------------------
(* cogs/core/core.py: the help browser (one HelpMenuView at a time; the    *)
(* pages are the loaded cogs in name order, so there is at least one)      *)

MaxPages == 4
MaxPresses == 5

\* next_page without the wrap of line 90: C31 depends on it
next_index_unwrapped(current_page, pages) == current_page + 1

\* line 90, with pages = len(self.pages)
next_index(current_page, pages) ==
    IF current_page < pages - 1 THEN current_page + 1 ELSE 0

\* line 84
previous_index(current_page, pages) ==
    IF current_page > 0 THEN current_page - 1 ELSE pages - 1

\* Core.help, lines 244-246, with HelpMenuView.__init__ and start: start_at is
\* None or names a command of the module at that index of self.commands
Core_help(pages, start_at) ==
    /\ help_view.state \in {"none", "closed"}
    /\ LET current_page == IF start_at = PyNone THEN 0 ELSE start_at.v
       IN  /\ help_view' = [state |-> "open", pages |-> pages,
                            current_page |-> current_page, shown |-> current_page]
           /\ help_trail' = <<[button |-> "start", page |-> current_page]>>
    /\ UNCHANGED help_others

\* previous_page, lines 81-85: the index is assigned before the edit is
\* awaited, and ok says whether the edit of the message succeeded
HelpMenuView_previous_page(ok) ==
    /\ help_view.state = "open"
    /\ Len(help_trail) <= MaxPresses
    /\ LET index == previous_index(help_view.current_page, help_view.pages)
       IN  /\ help_view' = [help_view EXCEPT !.current_page = index,
                                             !.shown = IF ok THEN index ELSE @]
           /\ help_trail' = Append(help_trail, [button |-> "previous", page |-> index])
    /\ UNCHANGED help_others

\* next_page, lines 87-91
HelpMenuView_next_page(ok) ==
    /\ help_view.state = "open"
    /\ Len(help_trail) <= MaxPresses
    /\ LET index == next_index(help_view.current_page, help_view.pages)
       IN  /\ help_view' = [help_view EXCEPT !.current_page = index,
                                             !.shown = IF ok THEN index ELSE @]
           /\ help_trail' = Append(help_trail, [button |-> "next", page |-> index])
    /\ UNCHANGED help_others

\* lines 93-99: the message is deleted and the view stopped
HelpMenuView_close ==
    /\ help_view.state = "open"
    /\ help_view' = [help_view EXCEPT !.state = "closed"]
    /\ UNCHANGED <<help_trail, help_others>>

\* lines 101-106: the same, after 120 seconds without a press
HelpMenuView_on_timeout ==
    /\ help_view.state = "open"
    /\ help_view' = [help_view EXCEPT !.state = "closed"]
    /\ UNCHANGED <<help_trail, help_others>>

Core_init ==
    /\ help_view = [state |-> "none", pages |-> 1, current_page |-> 0, shown |-> 0]
    /\ help_trail = <<>>

CoreNext ==
    \/ \E pages \in 1..MaxPages :
          \E start_at \in {PyNone} \cup {PyInt(k) : k \in 0..(pages - 1)} :
              Core_help(pages, start_at)
    \/ \E ok \in BOOLEAN : HelpMenuView_previous_page(ok)
    \/ \E ok \in BOOLEAN : HelpMenuView_next_page(ok)
    \/ HelpMenuView_close
    \/ HelpMenuView_on_timeout

----------------------------------------------------------------------------
(* cogs/quotes/quotes.py: quotify on a text message, the QuotifyView and   *)
(* its select menu (one view, one submission in flight).  A message is     *)
(* [id, content, clean_content], the two texts given by their lengths:     *)
(* clean_content spells mentions out, so the lengths differ.               *)

LENGTH_LIMIT == 1000
MESSAGES_LIMIT == 5

\* the initial message followed by the author's next messages in the channel
SelectHistories ==
    { <<[id |-> 1, content |-> 300, clean_content |-> 300],
        [id |-> 2, content |-> 400, clean_content |-> 400],
        [id |-> 3, content |-> 250, clean_content |-> 250]>>,
      <<[id |-> 1, content |-> 300, clean_content |-> 300],
        [id |-> 2, content |-> 400, clean_content |-> 400],
        [id |-> 3, content |-> 250, clean_content |-> 450]>>,
      <<[id |-> 1, content |-> 600, clean_content |-> 600],
        [id |-> 2, content |-> 300, clean_content |-> 500],
        [id |-> 3, content |-> 200, clean_content |-> 200]>>,
      <<[id |-> 1, content |-> 900, clean_content |-> 1050],
        [id |-> 2, content |-> 50, clean_content |-> 50]>>,
      <<[id |-> 1, content |-> 1200, clean_content |-> 1200],
        [id |-> 2, content |-> 100, clean_content |-> 100]>> }

\* fetch_following_messages, lines 345-360: following lists the non-blank
\* messages of the same author after the starting message, oldest first
RECURSIVE fetch_following(_, _, _)
fetch_following(msgs, total_length, following) ==
    IF following = <<>> THEN msgs
    ELSE LET total == total_length + Head(following).content
         IN  IF total > LENGTH_LIMIT THEN msgs
             ELSE IF Len(msgs) + 1 >= MESSAGES_LIMIT
                  THEN Append(msgs, Head(following))
                  ELSE fetch_following(Append(msgs, Head(following)), total,
                                       Tail(following))

fetch_following_messages(history) ==
    fetch_following(<<Head(history)>>, Head(history).content, Tail(history))

\* sum([len(m.clean_content) for m in messages]) for the messages with these ids
clean_length(potential, ids) ==
    LET len == [i \in ids |->
                   potential[CHOOSE k \in 1..Len(potential) : potential[k].id = i].clean_content]
    IN  SumOver(len, ids)

\* line 37 testing the ids just submitted rather than view.selected_messages
checked_selection_new(selected, values) == values

\* line 37: the sum is taken over self.__view.selected_messages, which line 40
\* has not replaced yet
checked_selection(selected, values) == selected

NoSelectView ==
    [state |-> "none", potential |-> <<>>, selected |-> {}, shown |-> {},
     pc |-> "idle", values |-> {}, before |-> {}, was_shown |-> {}, outcome |-> "none"]

\* message_menu_quotify, lines 205-214, with QuotifyView.start, lines 73-86:
\* rendered says whether quote_messages produced the image
Quotes_quotify_text(history, rendered) ==
    /\ select_view.state \in {"none", "closed"}
    /\ LET potential == fetch_following_messages(history)
           initial   == {Head(history).id}
       IN  select_view' =
               IF rendered
               THEN [NoSelectView EXCEPT !.state = "open", !.potential = potential,
                                         !.selected = initial, !.shown = initial]
               ELSE [NoSelectView EXCEPT !.outcome = "render_error"]
    /\ UNCHANGED select_others

\* the author submits values in the select menu, which start adds only when
\* there are several potential messages (line 78); callback runs up to its
\* first await, the defer of line 36
QuotifyMessageSelect_callback(values) ==
    /\ select_view.state = "open"
    /\ select_view.pc = "idle"
    /\ Len(select_view.potential) > 1
    /\ values # {}
    /\ values \subseteq {select_view.potential[k].id : k \in 1..Len(select_view.potential)}
    /\ select_view' = [select_view EXCEPT !.pc = "defer", !.values = values,
                                          !.before = select_view.selected,
                                          !.was_shown = select_view.shown,
                                          !.outcome = "none"]
    /\ UNCHANGED select_others

\* callback, lines 37-45, after an await; rendered says whether quote_messages
\* produced the image (when it did not, _get_image has replaced the reply by
\* the error text and removed the view from it, lines 92-95)
QuotifyMessageSelect_resume(rendered) ==
    /\ select_view.state = "open"
    /\ CASE select_view.pc = "defer" ->
              IF clean_length(select_view.potential,
                              checked_selection(select_view.selected, select_view.values))
                     > 1000
              THEN select_view' = [select_view EXCEPT !.pc = "idle", !.outcome = "too_long"]
              ELSE select_view' = [select_view EXCEPT !.pc = "image",
                                                      !.selected = select_view.values]
         [] select_view.pc = "image" ->
              IF rendered
              THEN select_view' = [select_view EXCEPT !.pc = "idle", !.outcome = "rendered",
                                                      !.shown = select_view.selected]
              ELSE select_view' = [select_view EXCEPT !.pc = "idle", !.state = "closed",
                                                      !.outcome = "render_error",
                                                      !.shown = {}]
         [] OTHER -> FALSE
    /\ UNCHANGED select_others

\* save_quit (lines 98-106), quit (lines 108-113) or on_timeout (lines 66-71):
\* the view leaves the reply and takes no further submission
QuotifyView_stop ==
    /\ select_view.state = "open"
    /\ select_view.pc = "idle"
    /\ select_view' = [select_view EXCEPT !.state = "closed"]
    /\ UNCHANGED select_others

Select_init == select_view = NoSelectView

SelectNext ==
    \/ \E history \in SelectHistories, rendered \in BOOLEAN :
          Quotes_quotify_text(history, rendered)
    \/ \E values \in SUBSET {1, 2, 3} : QuotifyMessageSelect_callback(values)
    \/ \E rendered \in BOOLEAN : QuotifyMessageSelect_resume(rendered)
    \/ QuotifyView_stop

----------------------------------------------------------------------------
(* Specifications: every cog starts from its state after construction *)
(* or, for the Starboard handlers, from a configured guild; a            *)
(* specification runs the handlers of one cog.                           *)

More_init == Polls_init /\ Quotes_init /\ Data_init /\ Tools_init /\ Pretty_init /\ XEmbed_init

Last_init == Core_init /\ Shorten_init /\ Select_init

Init == Exit_init /\ Colors_init /\ SB_init /\ More_init /\ Birthdays_init /\ Last_init

SpecExit == Init /\ [][ExitNext]_vars

SpecColors == Init /\ [][ColorsNext]_vars

InitSeq == Exit_init /\ Colors_init /\ SB_init_configured /\ More_init /\ Birthdays_init /\ Last_init

SpecStarboardSeq == InitSeq /\ [][StarboardSeqNext]_vars

InitConc == Exit_init /\ Colors_init /\ SB_init_configured_quiet /\ More_init /\ Birthdays_init /\ Last_init

SpecStarboardConc == InitConc /\ [][StarboardConcNext]_vars

SpecStarboardAdmin == Init /\ [][StarboardAdminNext]_vars

SpecPolls == Init /\ [][PollsNext]_vars

SpecQuotes == Init /\ [][QuotesNext]_vars

SpecData == Init /\ [][DataNext]_vars

SpecTools == Init /\ [][ToolsNext]_vars

SpecBirthdaysSweep == Init /\ [][BirthdaysSweepNext]_vars

InitUpcoming ==
    /\ Exit_init /\ Colors_init /\ SB_init /\ More_init /\ Last_init
    /\ Birthdays_init_state /\ bd_now \in ReferenceDates

SpecBirthdaysUpcoming == InitUpcoming /\ [][BirthdaysUpcomingNext]_vars

SpecZodiac == Init /\ [][ZodiacNext]_vars

SpecPretty == Init /\ [][PrettyNext]_vars

SpecXEmbed == Init /\ [][XEmbedNext]_vars

SpecCore == Init /\ [][CoreNext]_vars

SpecShorten == Init /\ [][ShortenNext]_vars

SpecSelect == Init /\ [][SelectNext]_vars

----------------------------------------------------------------------------
(* Exit: properties *)

Exit_EnabledIsZero(g) ==
    /\ exit_db[g].exists
    /\ "Enabled" \in DOMAIN exit_db[g].rows
    /\ exit_db[g].rows["Enabled"] = <<"0">>

\* C1: in a guild whose Exit setting 'Enabled' holds 0, handling a
\* member-removal event makes no webhook send attempt, whatever WebhookURL,
\* WebhookName and WebhookAvatar hold.
C1_NoSendWhenDisabled ==
    [][\A g \in Guilds :
          (Exit_EnabledIsZero(g) /\ on_member_remove(g))
              => webhook_sends'[g] = webhook_sends[g]]_vars

----------------------------------------------------------------------------
(* Colors: properties *)

\* C2: at most one role exists for each colour-role name '#RRGGBB' after any
\* sequence of colour acquisitions, removals and cleanups.
C2_OneRolePerColorName ==
    \A r1 \in DOMAIN roles : \A r2 \in DOMAIN roles :
        (r1 # r2 /\ IsColorRoleName(roles[r1].name)) => roles[r1].name # roles[r2].name

\* the two spellings of the colour Discord reserves for transparent roles
BlackInputs == { <<"0", "0", "0", "0", "0", "0">>,
                 <<"#", "0", "0", "0", "0", "0", "0">> }

\* C22: a /color get request for '000000' or '#000000' is always refused and
\* changes nothing: no role is created, renamed or recoloured and no
\* member's roles change; a request that passes the enabled and limit gates
\* is refused with the validation error of the reserved colour.
C22_BlackIsRefused ==
    [][\A member \in Members, color \in BlackInputs :
          Colors_get_color(member, color)
              => /\ roles' = roles
                 /\ member_roles' = member_roles
                 /\ colors_reply' \in {"disabled", "limited", "invalid_color"}
                 /\ (is_enabled(colors_db)
                       /\ ~is_role_limited(colors_db, roles, member_roles, member))
                        => colors_reply' = "invalid_color"]_vars

\* black was refused in a guild where colour roles are in use
C22_Witness ==
    /\ colors_reply = "invalid_color"
    /\ get_color_roles(roles) # {}

\* C23: when no role exists for the requested colour and the requester's
\* current colour role is held by no other member, fetch_role (here called
\* by /color auto) renames and recolours that role in place and returns it:
\* no other role is renamed or recoloured and no role is created.
C23_OwnRoleRecycledInPlace ==
    [][\A member \in Members, d \in AvatarDominants :
          LET colors == get_avatar_colors(d)
              own == get_user_color_role(roles, member_roles, member)
          IN  (/\ Colors_auto_avatar_color(member, d)
               /\ colors_reply' = "granted"
               /\ get_color_role(roles, colors[1]) = 0
               /\ own # 0
               /\ is_recyclable(member_roles, own, {member}))
                  => /\ roles' = edit_role(roles, own, colors[1])
                     /\ own \in member_roles'[member]]_vars

----------------------------------------------------------------------------
(* Starboard: properties *)

VoteCount(m) == get_message_votes_len(votes, m)

Threshold == get_setting_int(sb_db, "Threshold").v

Promoted(m) == m \in DOMAIN messages /\ messages[m].starboard_message_id # 0

\* a tracked message below the threshold has no mirror id
C3_BelowThreshold ==
    \A m \in DOMAIN messages :
        VoteCount(m) < Threshold
            => messages[m].starboard_message_id = 0 /\ MirrorsOf(m) = {}

\* once the votes reached the threshold and the handler has ended, there is
\* exactly one mirror and the row holds its id (unless the platform refused
\* the send)
C3_AtThreshold ==
    \A m \in DOMAIN messages :
        (AllIdle /\ VoteCount(m) >= Threshold /\ ~send_refused[m])
            => /\ Cardinality(MirrorsOf(m)) = 1
               /\ \E x \in MirrorsOf(m) : messages[m].starboard_message_id = x.id

\* a handler that finds its voter among the votes adds no row, posts nothing
\* and ends without calling handle_starboard_message
C3_DuplicateVoter ==
    \A h \in HandlerIds :
        (/\ SB_reaction_fetched(h)
         /\ has_voted(votes, handlers[h].m, handlers[h].u))
            => /\ votes' = votes
               /\ sb_channel' = sb_channel
               /\ messages' = messages
               /\ handlers'[h].pc = "idle"

\* C3: with reaction-add events handled one after another under a threshold
\* T >= 1: below T distinct voters no mirror is posted and the row's
\* starboard_message_id stays 0; the vote that brings the count to T posts
\* exactly one mirror and records its id; a repeated voter adds no vote row
\* and triggers no post or edit.
C3_PromotionAtThreshold ==
    [][/\ C3_BelowThreshold'
       /\ C3_AtThreshold'
       /\ (sb_channel' # sb_channel => \A m \in MsgIds : MirrorsOf(m)' # MirrorsOf(m)
                                            => VoteCount(m) >= Threshold)
       /\ C3_DuplicateVoter]_vars

C3_Witness ==
    /\ AllIdle
    /\ Threshold = 2
    /\ VoteCount(1) = 2
    /\ Cardinality(MirrorsOf(1)) = 1
    /\ Promoted(1)

\* C4 as stated: for any interleaving of the handlers at their await points,
\* at most one mirror message is ever posted for a source message.
C4_AtMostOneMirror ==
    \A m \in MsgIds : Cardinality(MirrorsOf(m)) <= 1

\* C4 as amended: when no event for a message arrives while another handler
\* for that message is still in flight, at most one mirror is posted for it.
C4_AtMostOneMirrorWhenSerialized ==
    \A m \in MsgIds : ~overlapped[m] => Cardinality(MirrorsOf(m)) <= 1

C4_Witness ==
    /\ ~overlapped[1]
    /\ AllIdle
    /\ VoteCount(1) = 2
    /\ Cardinality(MirrorsOf(1)) = 1
    /\ Promoted(1)

\* C5: the manual promotion command, in a guild with a destination channel,
\* promotes the message whatever its vote count: when the command's handler
\* ends (the platform not having refused the send), the message has a row
\* with a non-zero starboard_message_id.
C5_ManualPromotes ==
    [][\A h \in HandlerIds :
          (/\ handlers[h].kind = "manual"
           /\ handlers[h].pc # "idle"
           /\ handlers'[h].pc = "idle"
           /\ get_starboard_channel(sb_db) = "channel"
           /\ ~(handlers[h].pc = "send" /\ sb_channel' = sb_channel))
              => Promoted(handlers[h].m)']_vars

\* C6: a tracked message's created_at is the time of its first vote and no
\* later operation changes it while the row exists.
C6_CreatedAtNeverChanges ==
    [][\A m \in DOMAIN messages :
          m \in DOMAIN messages' => messages'[m].created_at = messages[m].created_at]_vars

\* C7: after the expiry sweep at time t no row with created_at < t - 86400
\* remains, no vote row references an absent message, and every row with
\* created_at >= t - 86400 and all of its votes are unchanged.
C7_SweepPostcondition ==
    [][SB_task_message_expire =>
          /\ \A m \in DOMAIN messages' :
                ~(messages'[m].created_at < now - MESSAGE_EXPIRATION_DELAY)
          /\ \A m \in MsgIds : \A u \in Users :
                votes'[m][u] > 0 => m \in DOMAIN messages'
          /\ \A m \in DOMAIN messages :
                messages[m].created_at >= now - MESSAGE_EXPIRATION_DELAY
                    => /\ m \in DOMAIN messages'
                       /\ messages'[m] = messages[m]
                       /\ votes'[m] = votes[m]]_vars

\* a promoted message and its votes have been purged
C7_Witness ==
    /\ messages = <<>>
    /\ MirrorsOf(1) # {}
    /\ \A u \in Users : votes[1][u] = 0
    /\ now > MESSAGE_EXPIRATION_DELAY

\* C8: for any interleaving of reaction-add handlers the votes table holds at
\* most one row per (message_id, user_id); add_message_vote for a pair that is
\* present returns False and leaves the table unchanged.
C8_OneVotePerPair ==
    [][/\ \A m \in MsgIds : \A u \in Users : votes'[m][u] <= 1
       /\ \A m \in MsgIds : \A u \in Users :
            has_voted(votes, m, u)
                => /\ ~add_message_vote(messages, votes, m, u, now).added
                   /\ add_message_vote(messages, votes, m, u, now).votes = votes
       /\ \A h \in HandlerIds :
            (SB_reaction_fetched(h) /\ has_voted(votes, handlers[h].m, handlers[h].u))
                => votes' = votes]_vars

\* a second reaction-add of a voter is about to be handled while another
\* handler for the message is in flight
C8_Witness ==
    \E h \in HandlerIds :
        /\ handlers[h].pc = "fetch_message"
        /\ handlers[h].kind = "reaction"
        /\ has_voted(votes, handlers[h].m, handlers[h].u)
        /\ overlapped[handlers[h].m]

\* C9: once a row's starboard_message_id is non-zero it stays non-zero for as
\* long as the row exists; the row leaves the promoted state only by being
\* purged by the expiry sweep.
C9_NeverUnpromoted ==
    [][\A m \in MsgIds :
          (Promoted(m) /\ ~Promoted(m)')
              => /\ m \notin DOMAIN messages'
                 /\ SB_task_message_expire
                 /\ messages[m].created_at < now - MESSAGE_EXPIRATION_DELAY]_vars

\* a promoted message whose votes have dropped below the threshold
C9_Witness ==
    /\ Promoted(1)
    /\ VoteCount(1) < Threshold
    /\ Threshold <= Cardinality(Users)

\* C10: over any sequence of reaction-add events and manual-promotion
\* commands with unchanged settings, the near-threshold nudge is sent at most
\* once per message.
C10_NudgeAtMostOnce ==
    \A m \in MsgIds : nudges[m] <= 1

\* C11: the starboard channel command stores the Channel setting only when the
\* bot has both the send-messages and the read-message-history permission on
\* the channel; with either permission missing the settings are unchanged.
C11_ChannelNeedsBothPermissions ==
    [][\A can_send \in BOOLEAN, can_read_history \in BOOLEAN :
          (~(can_send /\ can_read_history) /\ SB_config_sb_channel(can_send, can_read_history))
              => sb_db' = sb_db]_vars

----------------------------------------------------------------------------
(* Polls: properties *)

\* the create_fast_poll tasks between registering a session for ch and ending
OpenPolls(ch) == {t \in PollTaskIds : poll_tasks[t].pc # "idle" /\ poll_tasks[t].ch = ch}

\* C12: for any interleaving of poll-creation commands a channel has at most
\* one open poll at a time, and a creation attempt in a channel whose session
\* is registered is answered "already running", starts no task and leaves the
\* session (title, choices, votes) unchanged.
C12_OneOpenPollPerChannel ==
    [][/\ \A ch \in PollChannels : Cardinality(OpenPolls(ch)') <= 1
       /\ \A t \in PollTaskIds, ch \in PollChannels, title \in PollTitles,
             choices \in PollChoiceInputs, pin \in BOOLEAN :
             (ch \in DOMAIN sessions /\ Polls_create_fast_poll(t, ch, title, choices, pin))
                 => /\ sessions' = sessions
                    /\ poll_tasks' = poll_tasks
                    /\ poll_reply' = "already_running"]_vars

\* a creation attempt was rejected while a poll with a vote is open
C12_Witness ==
    /\ poll_reply = "already_running"
    /\ "c1" \in DOMAIN sessions
    /\ Cardinality(OpenPolls("c1")) = 1
    /\ \E o \in DOMAIN sessions["c1"].votes : sessions["c1"].votes[o] # <<>>

\* the number of times user appears in the vote lists of a session
Occurrences(vs, user) ==
    Cardinality({<<o, i>> \in (DOMAIN vs) \X (1..Cardinality(Users) + 1) :
                    i <= Len(vs[o]) /\ vs[o][i] = user})

\* C13: in every reachable state of a poll session each user id is in the
\* vote list of at most one choice and at most once; after a voter selects a
\* choice the voter is counted under it and under no other choice.
C13_SingleChoicePerVoter ==
    [][/\ \A ch \in DOMAIN sessions' : \A u \in Users :
            Occurrences(sessions'[ch].votes, u) <= 1
       /\ \A ch \in PollChannels, u \in Users, v \in {<<"a">>, <<"b">>} :
            FastPollSelect_callback(ch, u, v)
                => \A o \in DOMAIN sessions'[ch].votes :
                      (\E i \in 1..Len(sessions'[ch].votes[o]) :
                            sessions'[ch].votes[o][i] = u) <=> o = v]_vars

\* a voter has changed their vote to "b" after another voter chose "b"
C13_Witness ==
    /\ poll_reply = "vote_edited"
    /\ "c1" \in DOMAIN sessions
    /\ Len(sessions["c1"].votes[<<"b">>]) = 2
    /\ sessions["c1"].votes[<<"a">>] = <<>>

\* C14: a session registered for a channel is removed from the registry once
\* its voting control has expired, also when sending, pinning or the final
\* edit fails: a registered session always has a running create_fast_poll
\* task, the only code that removes it.
C14_RegisteredSessionHasCreator ==
    \A ch \in DOMAIN sessions : sessions[ch].view # "active" => OpenPolls(ch) # {}

----------------------------------------------------------------------------
(* Quotes: properties *)

\* the audio quote requests between setting the busy flag and ending
RendersInProgress == {t \in QuoteTaskIds : quote_tasks[t].pc # "idle"}

\* C15: for any interleaving of quotify requests on audio messages at most one
\* render is in progress at any time; a request arriving while one is in
\* progress is answered with the busy message, starts no task and writes no file.
C15_OneRenderAtATime ==
    [][/\ Cardinality(RendersInProgress') <= 1
       /\ \A t \in QuoteTaskIds, m \in AudioMsgs, too_big \in BOOLEAN :
            (RendersInProgress # {} /\ Quotes_message_menu_quotify(t, m, too_big))
                => /\ quote_reply' = "busy"
                   /\ quote_tasks' = quote_tasks
                   /\ temp_files' = temp_files
                   /\ busy' = busy]_vars

\* a request was answered busy while another one holds its rendered video
C15_Witness ==
    /\ quote_reply = "busy"
    /\ \E t \in QuoteTaskIds :
          /\ quote_tasks[t].pc = "send"
          /\ <<"video", quote_tasks[t].m>> \in temp_files

\* C16: when an audio quote request has finished, delivered or failed, no
\* file written for it (saved audio, rendered video) remains in the temp folder.
C16_NoFileLeftAfterRequest ==
    \A m \in AudioMsgs :
        (\A t \in QuoteTaskIds : quote_tasks[t].m # m)
            => (<<"audio", m>> \notin temp_files /\ <<"video", m>> \notin temp_files)

----------------------------------------------------------------------------
(* dataio: properties *)

\* the settings rows stored for an entity, none without file or table
StoredRows(files, obj) ==
    IF obj \in DOMAIN files /\ files[obj].exists THEN files[obj].rows ELSE <<>>

\* C17: over any sequence of build_settings_table calls with arbitrary default
\* sets, interleaved with update_settings calls, a key that has a value before
\* a build_settings_table call has the same value after it, and the call (on a
\* connection that is open) adds exactly the absent keys, each with the string
\* form of its default.
C17_BuildKeepsPresentKeys ==
    [][\A obj \in Guilds, d \in SettingDicts :
          Data_build_settings_table(obj, d)
              => LET old == StoredRows(data_files, obj)
                     new == StoredRows(data_files', obj)
                 IN  /\ \A k \in DOMAIN old : k \in DOMAIN new /\ new[k] = old[k]
                     /\ (obj \in DOMAIN data_conns => data_conns[obj] = "open")
                            => /\ DOMAIN new = DOMAIN old \cup DOMAIN d
                               /\ \A k \in DOMAIN d \ DOMAIN old : new[k] = PyStr(d[k])]_vars

\* a table on an open connection where k1 was updated to "5" and k2 is absent
C17_Witness ==
    \E obj \in DOMAIN data_files :
        /\ obj \in DOMAIN data_conns
        /\ data_conns[obj] = "open"
        /\ DOMAIN StoredRows(data_files, obj) = {"k1"}
        /\ StoredRows(data_files, obj)["k1"] = <<"5">>

\* C18: after delete(entity) has returned, the file of the entity no longer
\* exists and no handle for it is cached, whether or not a handle was cached
\* when delete was called.
C18_DeletedMeansGone ==
    \A obj \in data_deleted : obj \notin DOMAIN data_files /\ obj \notin DOMAIN data_conns

\* C19: after any sequence of get, close, close_all, delete and delete_all
\* every cached handle is bound to an open connection.
C19_CachedHandlesAreOpen ==
    \A obj \in DOMAIN data_conns : data_conns[obj] = "open"

----------------------------------------------------------------------------
(* Tools: properties *)

\* C20: over any sequence of translate_text calls a translator client is
\* constructed at most once for each (source, target) pair and is never
\* evicted: a translation with a pair that has a client reuses that client,
\* which is the one constructed for the pair.
C20_OneClientPerPair ==
    [][/\ \A p \in LangInputs \X LangInputs : constructions'[p] <= 1
       /\ \A k \in DOMAIN translators :
            k \in DOMAIN translators' /\ translators'[k] = translators[k]
       /\ \A source \in LangInputs, target \in LangInputs :
            (constructions[<<source, target>>] > 0 /\ Tools_translate_text(source, target))
                => /\ tr_result' = "reused"
                   /\ constructions' = constructions
                   /\ translators[translator_key(source, target)]
                         = [source |-> source, target |-> target]]_vars

\* auto -> es was translated again with the client constructed before
C20_Witness ==
    /\ tr_result = "reused"
    /\ constructions[<<AutoLang, <<"e", "s">>>>] = 1
    /\ Cardinality(DOMAIN translators) = 1

\* the (source, target) pairs translate_text has to refuse
Unsupported(source, target) ==
    target \notin SupportedLangs \/ source \notin SupportedLangs \cup {AutoLang}

\* C21: for every (source, target) pair whose target is not supported or
\* whose source is neither supported nor 'auto', translate_text fails with a
\* named-language error: it constructs no client and returns no result.
C21_UnsupportedIsRefused ==
    [][\A source \in LangInputs, target \in LangInputs :
          (Unsupported(source, target) /\ Tools_translate_text(source, target))
              => /\ tr_result' \in {"ValueError_target", "ValueError_source"}
                 /\ translators' = translators]_vars

----------------------------------------------------------------------------
(* Birthdays: properties *)

\* C24: over any sequence of ticks of the 30-second loop, the
\* guild-processing body of the birthday sweep starts at most once per
\* calendar day, and it starts on the first tick of each new day.
C24_OncePerDay ==
    [][/\ bd_runs_today' <= 1
       /\ (Birthdays_check_birthdays /\ bd_ticks_today = 0) => bd_runs_today' = 1]_vars

\* a later day on which the loop ticked twice and the body ran once
C24_Witness ==
    /\ DaysBetween(StartDate, bd_now) >= 1
    /\ bd_ticks_today = 2
    /\ bd_runs_today = 1

\* C25: a failure while one guild is processed (a refused role grant or
\* removal, a refused send, an error raised for the guild's configuration)
\* does not keep the sweep from reaching the remaining guilds, and the loop
\* is still alive for later ticks.
C25_FailureDoesNotStopSweep ==
    /\ bd_loop.state # "failed"
    /\ (bd_loop.state = "waiting" /\ bd_last_check # <<>>) => bd_processed = Guilds

\* the next occurrence of a stored date seen from the reference date: this
\* year if its midnight has not passed, next year otherwise
NextOccurrence(date, today, late) ==
    LET earlier == \/ date.month < today.month
                   \/ date.month = today.month /\ date.day < today.day
                   \/ date.month = today.month /\ date.day = today.day /\ late
    IN  [year |-> IF earlier THEN today.year + 1 ELSE today.year,
         month |-> date.month, day |-> date.day]

NotAfter(a, b) ==
    \/ a.year < b.year
    \/ a.year = b.year /\ a.month < b.month
    \/ a.year = b.year /\ a.month = b.month /\ a.day <= b.day

\* C26: for any stored birthdays and any reference date, the listing of
\* /bday next resolves each birthday to its next occurrence (this year if
\* not yet passed, next year otherwise) and lists the members of the guild,
\* up to the limit, in ascending order of that occurrence, the earliest first.
C26_UpcomingSorted ==
    LET l == bd_listing
        e == l.entries
        stored == {u \in DOMAIN l.bdays : u \in guild_members["g1"]}
        occ(u) == NextOccurrence(strptime_dm(l.bdays[u]), l.today, l.late)
        listed == {e[i].member : i \in 1..Len(e)}
    IN  l.limit > 0 =>
          /\ Len(e) = IF l.limit < Cardinality(stored) THEN l.limit ELSE Cardinality(stored)
          /\ listed \subseteq stored
          /\ Cardinality(listed) = Len(e)
          /\ \A i \in 1..Len(e) : e[i].date = occ(e[i].member)
          /\ \A i \in 1..Len(e) : \A j \in i..Len(e) : NotAfter(e[i].date, e[j].date)
          /\ \A u \in stored \ listed : \A i \in 1..Len(e) : NotAfter(e[i].date, occ(u))

\* birthdays 01/10, 06/15 and 12/25 listed on 12/01: 12/25 of this year, then
\* 01/10 and 06/15 of next year
C26_Witness ==
    /\ bd_listing.today = [year |-> 2023, month |-> 12, day |-> 1]
    /\ Len(bd_listing.entries) = 3
    /\ bd_listing.entries[1].date = [year |-> 2023, month |-> 12, day |-> 25]
    /\ bd_listing.entries[2].date = [year |-> 2024, month |-> 1, day |-> 10]
    /\ bd_listing.entries[3].date = [year |-> 2024, month |-> 6, day |-> 15]

\* C27: for every calendar date get_zodiac_sign returns a sign, never an
\* absent value, and the sign is the one of the first table entry whose
\* cutoff is >= 100 * month + day; 02/20 is Pisces, 01/20 Capricorn, 12/22
\* Sagittarius and 12/31 Capricorn.
C27_ZodiacTotal ==
    LET mmdd == 100 * bd_sign.month + bd_sign.day
        first == CHOOSE i \in 1..Len(zodiacs) :
                    /\ zodiacs[i][1] >= mmdd
                    /\ \A j \in 1..(i - 1) : zodiacs[j][1] < mmdd
    IN  bd_sign.sign # "none" =>
          /\ bd_sign.sign # "None"
          /\ \E i \in 1..Len(zodiacs) : zodiacs[i][1] >= mmdd
          /\ bd_sign.sign = zodiacs[first][2]
          /\ (bd_sign.month = 2 /\ bd_sign.day = 20) => bd_sign.sign = "Poisson"
          /\ (bd_sign.month = 1 /\ bd_sign.day = 20) => bd_sign.sign = "Capricorne"
          /\ (bd_sign.month = 12 /\ bd_sign.day = 22) => bd_sign.sign = "Sagittaire"
          /\ (bd_sign.month = 12 /\ bd_sign.day = 31) => bd_sign.sign = "Capricorne"

\* the wrap-around case: 12/31 was looked up
C27_Witness == bd_sign = [month |-> 12, day |-> 31, sign |-> "Capricorne"]

----------------------------------------------------------------------------
(* pretty: properties *)

\* the bar of a call with the default use_half_bar=True, display_percent=False
DefaultCall(value, total, lenght) ==
    /\ bar_call.value = value /\ bar_call.total = total /\ bar_call.lenght = lenght
    /\ bar_call.use_half_bar /\ ~bar_call.display_percent

\* C28 as stated: bargraph(5, 10, 10) is exactly 5 full blocks with no half
\* block, bargraph(1, 3, 10) is 3 full blocks followed by a half block, and
\* bargraph(x, 0, ...) is a single space for every x.
C28_Examples ==
    /\ DefaultCall(5, 10, 10) => bar_call.result = <<FULL, FULL, FULL, FULL, FULL>>
    /\ DefaultCall(1, 3, 10) => bar_call.result = <<FULL, FULL, FULL, HALF>>
    /\ (bar_call.lenght > 0 /\ bar_call.total = 0) => bar_call.result = <<" ">>

\* C28 amended: bargraph(5, 10, 10) is exactly 5 full blocks with no half
\* block, bargraph(1, 3, 10) is exactly 3 full blocks with no half block
\* (the remainder 0.33 is below 0.5), and bargraph(x, 0, ...) is a single
\* space for every x; in general the bar has floor(value * lenght / total)
\* full blocks and a half block exactly when the remainder is >= 0.5 and
\* half bars are enabled.
C28_ExamplesAmended ==
    LET r == bar_call.result
        whole == (bar_call.value * bar_call.lenght) \div bar_call.total
        rest2 == 2 * ((bar_call.value * bar_call.lenght) % bar_call.total)
        blocks == SelectSeq(r, LAMBDA c : c \in {FULL, HALF})
    IN  /\ DefaultCall(5, 10, 10) => r = <<FULL, FULL, FULL, FULL, FULL>>
        /\ DefaultCall(1, 3, 10) => r = <<FULL, FULL, FULL>>
        /\ (bar_call.lenght > 0 /\ bar_call.total = 0) => r = <<" ">>
        /\ (bar_call.lenght > 0 /\ bar_call.total > 0) =>
              /\ \A i \in 1..whole : blocks[i] = FULL
              /\ Len(blocks) = whole
                    + (IF rest2 >= bar_call.total /\ bar_call.use_half_bar THEN 1 ELSE 0)
              /\ Len(blocks) > whole => blocks[Len(blocks)] = HALF
              /\ ~bar_call.display_percent => r = blocks

\* bargraph(1, 3, lenght=10) was called and returned
C28_Witness == DefaultCall(1, 3, 10) /\ Len(bar_call.result) = 3

----------------------------------------------------------------------------
(* XEmbed: properties *)

\* no task of the cog is suspended at an await
XEmbedQuiet ==
    /\ xe_tasks.on_message \in {"idle", "done"}
    /\ xe_tasks.cancel \in {"idle", "done"}
    /\ xe_tasks.on_timeout \in {"idle", "done"}

\* C29: in full mode, once the author has pressed the cancel control within
\* the delay, the final state has the rendering deleted and the native
\* embed of the original message restored (not suppressed), for any
\* interleaving of the cancel with the remaining steps of the handler that
\* posted the rendering.
C29_CancelRestoresEmbed ==
    (/\ xe_tasks.mode = <<"f", "u", "l", "l">>
     /\ xe_view.cancelled
     /\ XEmbedQuiet)
        => /\ xe_platform.rendering = "deleted"
           /\ ~xe_platform.message_suppressed

----------------------------------------------------------------------------
(* Properties of cogs/core/core.py *)

\* C31: in a help browser of n >= 1 pages, after any sequence of previous and
\* next presses the page index is in 0..n-1; next on the last page leads to the
\* first, previous on the first to the last, next followed by previous leads
\* back to the same page, and n next presses in a row lead back to the page
\* they started from.
C31_PagesWrapAround ==
    help_view.state # "none" =>
        LET n        == help_view.pages
            last     == Len(help_trail)
            page(i)  == help_trail[i].page
            press(i) == help_trail[i].button
        IN  /\ n >= 1
            /\ help_view.current_page = page(last)
            /\ \A i \in 1..last : page(i) \in 0..(n - 1)
            /\ \A i \in 2..last :
                  /\ press(i) = "next" /\ page(i - 1) = n - 1 => page(i) = 0
                  /\ press(i) = "previous" /\ page(i - 1) = 0 => page(i) = n - 1
            /\ \A i \in 3..last :
                  press(i - 1) = "next" /\ press(i) = "previous" => page(i) = page(i - 2)
            /\ \A i \in 1..(last - n) :
                  (\A k \in 1..n : press(i + k) = "next") => page(i + n) = page(i)

\* a browser of three pages opened on the second one has handled next, next,
\* next, previous, previous: both wraps, a next undone by a previous, and a
\* full turn
C31_Witness ==
    /\ help_view.pages = 3
    /\ Len(help_trail) = 6
    /\ help_trail[1].page = 1
    /\ \A i \in 2..4 : help_trail[i].button = "next"
    /\ \A i \in 5..6 : help_trail[i].button = "previous"
    /\ help_view.current_page = 2

----------------------------------------------------------------------------
(* Further properties of cogs/polls/polls.py *)

\* C32: when a poll closes, exactly one choice is highlighted as the winner; it
\* has the greatest number of votes, and of the choices with that number it is
\* the one given first at creation (so the first choice when nobody voted).
C32_WinnerIsFirstMaximum ==
    poll_results.rows # <<>> =>
        LET rows   == poll_results.rows
            given  == poll_results.choices
            first_at(c) == CHOOSE i \in 1..Len(given) :
                               given[i] = c /\ \A j \in 1..(i - 1) : given[j] # c
            marked == {k \in 1..Len(rows) : rows[k].mark = "+"}
        IN  /\ {rows[k].choice : k \in 1..Len(rows)} = {given[i] : i \in 1..Len(given)}
            /\ Cardinality(marked) = 1
            /\ \A w \in marked : \A k \in 1..Len(rows) :
                  /\ rows[k].count <= rows[w].count
                  /\ rows[k].count = rows[w].count =>
                        first_at(rows[w].choice) <= first_at(rows[k].choice)

\* a poll created with the choices "b; a;b" has closed with one vote for each
\* choice, and "b" is highlighted
C32_Witness ==
    /\ poll_results.choices = <<<<"b">>, <<"a">>, <<"b">>>>
    /\ Len(poll_results.rows) = 2
    /\ \A k \in 1..2 : poll_results.rows[k].count = 1
    /\ poll_results.rows[1] = [choice |-> <<"b">>, mark |-> "+", count |-> 1]

----------------------------------------------------------------------------
(* Further properties of cogs/quotes/quotes.py *)

\* C33: in the quote selection view a submitted selection is rejected with an
\* error, the rendering shown before being kept, exactly when the combined
\* clean_content length of the messages just selected exceeds 1000; a
\* selection within the limit is accepted and rendered (the submissions
\* whose image could not be produced are left aside).
C33_RejectedExactlyWhenTooLong ==
    (select_view.pc = "idle" /\ select_view.outcome \in {"too_long", "rendered"}) =>
        LET long == clean_length(select_view.potential, select_view.values) > 1000
        IN  /\ select_view.outcome = "too_long" <=> long
            /\ long => select_view.shown = select_view.was_shown
            /\ ~long => select_view.shown = select_view.values

----------------------------------------------------------------------------
(* Further properties of common/utils/pretty.py *)

\* C34: for every text, every max_length >= 0 and every end marker,
\* shorten_text returns the text unchanged when its length is at most
\* max_length, and otherwise a string of exactly max_length characters that
\* ends with the end marker.
C34_ShortenedToMaxLength ==
    LET text   == short_call.text
        end    == short_call.end
        result == short_call.result
    IN  IF Len(text) <= short_call.max_length
        THEN result = text
        ELSE /\ Len(result) = short_call.max_length
             /\ Len(result) >= Len(end)
             /\ SubSeq(result, Len(result) - Len(end) + 1, Len(result)) = end

----------------------------------------------------------------------------
(* Further properties of cogs/starboard/starboard.py *)

\* C35: a reaction-add event that fails an intake filter (the bot cannot read
\* the channel's history, the feature is disabled, the emoji is not the
\* configured vote emote, or the message was created more than 24 hours ago)
\* leaves the messages and votes tables unchanged, posts nothing, and leaves
\* no handler behind that could.
C35_FilteredReactionChangesNothing ==
    [][/\ (\E h \in HandlerIds, m \in MsgIds, u \in Users,
              e \in {StarEmote, OtherEmote}, p \in BOOLEAN :
              /\ SB_on_raw_reaction_add(h, m, u, e, p)
              /\ \/ ~p
                 \/ ~Truthy(get_setting_int(sb_db, "Enabled"))
                 \/ PyText(e) # get_setting(sb_db, "Emote"))
          => UNCHANGED <<messages, votes, sb_channel, nudges, handlers>>
       /\ \A h \in HandlerIds :
             (/\ SB_reaction_fetched(h)
              /\ MsgCreatedAt(handlers[h].m) + 24 * 60 * 60 < now)
             => /\ UNCHANGED <<messages, votes, sb_channel, nudges>>
                /\ handlers'[h] = IdleHandler
      ]_vars

\* a vote on a message created more than 24 hours ago has passed the first
\* filters of an enabled guild and its handler is about to test the age
C35_Witness ==
    \E h \in HandlerIds :
        /\ handlers[h].pc = "fetch_message"
        /\ handlers[h].kind = "reaction"
        /\ Truthy(get_setting_int(sb_db, "Enabled"))
        /\ MsgCreatedAt(handlers[h].m) + 24 * 60 * 60 < now

\* C37: in a guild where Starboard is enabled and the Channel setting still
\* holds its seeded default, a reaction-add with the vote emote is ignored:
\* the handler ends without raising an error and records no vote and no
\* tracked message.
C37_UnconfiguredChannelIgnored ==
    [][(/\ sb_db.exists
        /\ Truthy(get_setting_int(sb_db, "Enabled"))
        /\ sb_db.rows["Channel"] = PyStr(Starboard_default_settings["Channel"])
        /\ ~sb_raised
        /\ \E h \in HandlerIds, m \in MsgIds, u \in Users, e \in {StarEmote, OtherEmote} :
              /\ PyText(e) = get_setting(sb_db, "Emote")
              /\ SB_on_raw_reaction_add(h, m, u, e, TRUE))
       => /\ ~sb_raised'
          /\ UNCHANGED <<messages, votes, handlers>>
      ]_vars

----------------------------------------------------------------------------
(* Further properties of cogs/xembed/xembed.py *)

\* C36: in full mode the native embed of a member's message is suppressed only
\* if a replacement rendering was posted as a reply to it: when the mirror API
\* returns no data for the post, the message is left unchanged.
C36_SuppressedOnlyIfReplaced ==
    (xe_tasks.mode = <<"f", "u", "l", "l">> /\ xe_platform.message_suppressed)
        => xe_platform.rendering # "none"

----------------------------------------------------------------------------
(* Quotes: the busy flag after a request *)

\* C38: whenever every audio quote request that set the busy flag has ended,
\* by delivery, by a render error, or by a failure to defer or to send the
\* reply, the busy flag is false again, so that no request is rejected as busy
\* while no render is in progress.
C38_BusyClearedAfterRequest ==
    RendersInProgress = {} => ~busy

----------------------------------------------------------------------------
(* Birthdays: the announcement of the sweep *)

\* C39: the sweep posts an announcement in a guild only if at least one member
\* of the guild has a birthday today; for a guild with no birthday today it
\* goes through the guild without error and posts nothing, whatever
\* notification channel and birthday role are configured (no platform call
\* being refused).
C39_AnnouncementNeedsBirthday ==
    [][\A exc \in {"HTTPException", "ClientError"} :
          (bd_loop.state = "running" /\ Birthdays_process_guild("none", exc)) =>
              LET guild == bot_guilds[bd_loop.idx]
                  birthdays == get_birthdays_today(bd_bdays, guild, bd_now)
              IN  /\ bd_posted'[guild] # "none" => Len(birthdays) >= 1
                  /\ Len(birthdays) = 0 =>
                        /\ bd_posted'[guild] = "none"
                        /\ bd_loop'.state # "failed"
      ]_vars

=============================================================================
